---- MODULE Spec2Model ----
(***************************************************************************)
(* csv-cleaner: the plan validator (src/pipeline/validate.py) and the plan *)
(* executor (src/pipeline/executor.py) as one state machine.  A run takes  *)
(* a CleaningPlan and a dataset, calls ensure_valid_plan / validate_plan   *)
(* on the plan, and then execute_plan on the dataset and the same plan.    *)
(* The routes of src/api/routes.py that create and serve jobs call them    *)
(* and keep the artifacts of src/pipeline/artifacts.py.                    *)
(*                                                                         *)
(* Text (cell values, null tokens, enum values, version, summary) is a     *)
(* sequence of one-character strings.  Column names are TLA+ strings, so   *)
(* that the validator's messages can be built as the f-strings build them. *)
(* An optional value is <<>> (None) or <<v>>.                              *)
(***************************************************************************)
EXTENDS Integers, Sequences, FiniteSets, TLC

VARIABLES
    plan,        \* the CleaningPlan under validation and execution
    df,          \* the input dataset of execute_plan: [columns, rows]
    df_columns,  \* validate_plan's df_columns argument: None or <<list>>
    pc,          \* position of the run
    cols,        \* validator: the working column set
    errors,      \* validator: errors list
    warnings,    \* validator: warnings list
    v_idx,       \* validator: index of the next action to simulate
    result,      \* None or <<PlanValidationResult>> returned by validate_plan
    ensured,     \* outcome of ensure_valid_plan: None, or <<[raised, ...]>>
    out,         \* executor: the working copy of the dataset
    report,      \* executor: the execution report
    e_idx,       \* executor: index of the next action to apply
    exc,         \* executor: "" or the exception execute_plan raised
    returned,    \* executor: None or <<[df, report]>> returned by execute_plan
    job_id,      \* routes: the job id issued last, 0 before the first
    outputs,     \* artifacts: the files under outputs/, by directory and job id
    response     \* routes: None or <<the response to the last request>>

\* the state of the routes
route_vars == << job_id, outputs, response >>

vars == << plan, df, df_columns, pc, cols, errors, warnings, v_idx, result,
           ensured, out, report, e_idx, exc, returned, job_id, outputs, response >>

-----------------------------------------------------------------------------
(* Bounds of the checked inputs *)

MaxActions == 2
MaxList == 2
MaxMap == 2
MaxRules == 2
MaxAllowed == 2
MaxRows == 3
MaxText == 3
MaxJobs == 2

-----------------------------------------------------------------------------
(* Generic helpers *)

None == <<>>
Some(v) == <<v>>
IsNone(o) == o = <<>>
Val(o) == o[1]

Range(s) == { s[i] : i \in 1..Len(s) }

SeqsUpTo(S, n) == UNION { [1..k -> S] : k \in 0..n }

RECURSIVE FlatMap(_, _)
\* concatenation of Op(s[1]), Op(s[2]), ... (a list built by successive appends)
FlatMap(Op(_), s) ==
    IF s = <<>> THEN <<>> ELSE Op(Head(s)) \o FlatMap(Op, Tail(s))

\* Python's code-point order on the column names of the model
NameOrd == << "", " ", "A", "B", "C" >>

\* sorted(S) for a set of column names
Sorted(S) == SelectSeq(NameOrd, LAMBDA n : n \in S)

RECURSIVE JoinNames(_)
JoinNames(s) ==
    IF s = <<>> THEN ""
    ELSE IF Len(s) = 1 THEN "'" \o s[1] \o "'"
    ELSE "'" \o s[1] \o "', " \o JoinNames(Tail(s))

\* repr of a list of str, as an f-string formats it
ReprList(s) == "[" \o JoinNames(s) \o "]"

\* repr of a float holding an integral value
FloatStr(n) == ToString(n) \o ".0"

\* str.strip() on a column name of the model
StripName(n) == IF n = " " THEN "" ELSE n

\* whitespace characters of str.strip() that occur in the model's text
IsSpace(ch) == ch \in { " ", "\t" }

RECURSIVE LStrip(_)
LStrip(s) == IF s # <<>> /\ IsSpace(Head(s)) THEN LStrip(Tail(s)) ELSE s

RECURSIVE RStrip(_)
RStrip(s) ==
    IF s # <<>> /\ IsSpace(s[Len(s)]) THEN RStrip(SubSeq(s, 1, Len(s) - 1)) ELSE s

\* a variant of Strip that removes at most one whitespace character per side
Strip_OneChar(s) ==
    LET a == IF s # <<>> /\ IsSpace(Head(s)) THEN Tail(s) ELSE s
    IN  IF a # <<>> /\ IsSpace(a[Len(a)]) THEN SubSeq(a, 1, Len(a) - 1) ELSE a

\* str.strip() on text
Strip(s) == RStrip(LStrip(s))

\* a value that is not a str (reachable only by bypassing the schema)
NonStr == << "<int>" >>
IsStr(v) == v # NonStr

-----------------------------------------------------------------------------
(* src/pipeline/validate.py *)

Issue(p, m) == [path |-> p, message |-> m]

ActionPath(idx, field) == "actions[" \o ToString(idx) \o "]." \o field

RECURSIVE FindDupesFrom(_, _, _)
FindDupesFrom(items, seen, dupes) ==
    IF items = <<>> THEN dupes
    ELSE FindDupesFrom(Tail(items), seen \cup { Head(items) },
                       IF Head(items) \in seen THEN dupes \cup { Head(items) }
                       ELSE dupes)

\* _find_dupes
FindDupes(items) == FindDupesFrom(items, {}, {})

MinMaxMessage(rr) ==
    "Min (" \o FloatStr(Val(rr.min)) \o ") cannot be greater than max ("
        \o FloatStr(Val(rr.max)) \o ") for column '" \o rr.column \o "'"

\* a variant of RangeBad that also rejects min = max
RangeBad_NonStrict(rr) == ~IsNone(rr.min) /\ ~IsNone(rr.max) /\ Val(rr.min) >= Val(rr.max)

RangeBad(rr) == ~IsNone(rr.min) /\ ~IsNone(rr.max) /\ Val(rr.min) > Val(rr.max)

\* the errors the range loop of _validate_validations appends, from rule i on
RECURSIVE RangeErrors(_, _)
RangeErrors(ranges, i) ==
    IF i > Len(ranges) THEN <<>>
    ELSE (IF RangeBad(ranges[i])
          THEN << Issue("validations.ranges[" \o ToString(i - 1) \o "]",
                        MinMaxMessage(ranges[i])) >>
          ELSE <<>>)
         \o RangeErrors(ranges, i + 1)

EnumPath(i) == "validations.enums[" \o ToString(i - 1) \o "].allowed"

EmptyAllowedMessage(er) == "Allowed list cannot be empty for column '" \o er.column \o "'"

BlankAllowedMessage(er) ==
    "Allowed list contains empty/non-string values for column '" \o er.column \o "'"

\* the test of validate.py line 97 on one allowed entry
\* a variant of BlankEntry that does not strip the entry
BlankEntry_NoStrip(v) == ~IsStr(v) \/ v = <<>>

BlankEntry(v) == ~IsStr(v) \/ Strip(v) = <<>>

RECURSIVE EnumErrors(_, _)
EnumErrors(enums, i) ==
    IF i > Len(enums) THEN <<>>
    ELSE (IF enums[i].allowed = <<>>
          THEN << Issue(EnumPath(i), EmptyAllowedMessage(enums[i])) >>
          ELSE <<>>)
         \o EnumErrors(enums, i + 1)

RECURSIVE EnumWarnings(_, _)
EnumWarnings(enums, i) ==
    IF i > Len(enums) THEN <<>>
    ELSE (IF \E k \in 1..Len(enums[i].allowed) : BlankEntry(enums[i].allowed[k])
          THEN << Issue(EnumPath(i), BlankAllowedMessage(enums[i])) >>
          ELSE <<>>)
         \o EnumWarnings(enums, i + 1)

RuleColumns(rules) == [ i \in 1..Len(rules) |-> rules[i].column ]

DupRequiredWarnings(p) ==
    LET dup_required == FindDupes(RuleColumns(p.validations.required))
    IN  IF dup_required # {}
        THEN << Issue("validations.required",
                      "Duplicate required columns: " \o ReprList(Sorted(dup_required))) >>
        ELSE <<>>

\* _validate_validations: what it appends to errors and to warnings
ValidateValidations(p) ==
    [ errors   |-> RangeErrors(p.validations.ranges, 1) \o EnumErrors(p.validations.enums, 1),
      warnings |-> DupRequiredWarnings(p) \o EnumWarnings(p.validations.enums, 1) ]

VersionErrors(p) ==
    IF ~IsStr(p.version) \/ Strip(p.version) = <<>>
    THEN << Issue("version", "Version must be a non-empty string") >>
    ELSE <<>>

SummaryErrors(p) ==
    IF ~IsStr(p.summary)
    THEN << Issue("summary", "Summary must be a string") >>
    ELSE <<>>

MissingMessage(kind, c) ==
    CASE kind = "rename_columns" -> "Rename source column '" \o c \o "' not found in current columns"
      [] kind = "drop_columns" -> "drop_columns references missing column '" \o c \o "'"
      [] kind = "trim_whitespace" -> "trim_whitespace references missing column '" \o c \o "'"
      [] kind = "parse_numeric" -> "parse_numeric references missing column '" \o c \o "'"
      [] kind = "parse_dates" -> "parse_dates references missing column '" \o c \o "'"
      [] kind = "deduplicate_rows" -> "deduplicate_rows subset references missing column '" \o c \o "'"
      [] kind = "required" -> "required column '" \o c \o "' not present after actions (may fail at runtime validation)"
      [] kind = "ranges" -> "range rule column '" \o c \o "' not present after actions (will be skipped/fail at runtime)"
      [] kind = "enums" -> "Enum rule column '" \o c \o "' not present after actions (will be skipped/fail at runtime)"

EmptyListMessage(kind) ==
    CASE kind = "rename_columns" -> "rename_columns mapping is empty"
      [] kind = "drop_columns" -> "drop_columns has empty columns list"
      [] kind = "trim_whitespace" -> "trim_whitespace has empty columns list"
      [] kind = "parse_numeric" -> "parse_numeric has empty columns list"
      [] kind = "parse_dates" -> "parse_dates has empty columns list"
      [] kind = "deduplicate_rows" -> "deduplicate_rows has empty subset list"

BlankTargetMessage(old) == "Rename target for '" \o old \o "' must be a non-empty string"

DupTargetsMessage(dup_new) == "Rename mapping has duplicate targets: " \o ReprList(Sorted(dup_new))

\* the test of validate.py lines 133 and 144 on a rename target
BlankTarget(new) == StripName(new) = ""

Sim(c, e, w) == [cols |-> c, errors |-> e, warnings |-> w]

\* a variant of SimRenameEntries that checks every entry against the columns
\* it started from and leaves the column set alone
RECURSIVE SimRenameEntries_Untracked(_, _, _, _)
SimRenameEntries_Untracked(mapping, k, path, st) ==
    IF k > Len(mapping) THEN st
    ELSE LET old == mapping[k][1]
             new == mapping[k][2]
         IN  IF BlankTarget(new)
             THEN SimRenameEntries_Untracked(mapping, k + 1, path,
                      Sim(st.cols, Append(st.errors, Issue(path, BlankTargetMessage(old))),
                          st.warnings))
             ELSE IF old \notin st.cols
             THEN SimRenameEntries_Untracked(mapping, k + 1, path,
                      Sim(st.cols, st.errors,
                          Append(st.warnings, Issue(path, MissingMessage("rename_columns", old)))))
             ELSE SimRenameEntries_Untracked(mapping, k + 1, path, st)

\* the loop over mapping.items() of lines 143-163, from entry k on
RECURSIVE SimRenameEntries(_, _, _, _)
SimRenameEntries(mapping, k, path, st) ==
    IF k > Len(mapping) THEN st
    ELSE LET old == mapping[k][1]
             new == mapping[k][2]
         IN  IF BlankTarget(new)
             THEN SimRenameEntries(mapping, k + 1, path,
                      Sim(st.cols, Append(st.errors, Issue(path, BlankTargetMessage(old))),
                          st.warnings))
             ELSE IF old \notin st.cols
             THEN SimRenameEntries(mapping, k + 1, path,
                      Sim(st.cols, st.errors,
                          Append(st.warnings, Issue(path, MissingMessage("rename_columns", old)))))
             ELSE SimRenameEntries(mapping, k + 1, path,
                      Sim((st.cols \ { old }) \cup { new }, st.errors, st.warnings))

\* a variant of SimRename that looks for duplicates among all the targets,
\* the blank ones included
SimRename_DupesAmongAll(idx, action, c) ==
    LET mapping == action.mapping
        path == ActionPath(idx, "mapping")
        dup_new == FindDupes([ k \in 1..Len(mapping) |-> mapping[k][2] ])
    IN  IF Len(mapping) = 0
        THEN Sim(c, <<>>, << Issue(path, EmptyListMessage("rename_columns")) >>)
        ELSE SimRenameEntries(mapping, 1, path,
                 Sim(c, <<>>,
                     IF dup_new # {} THEN << Issue(path, DupTargetsMessage(dup_new)) >>
                     ELSE <<>>))

\* rename_columns branch, lines 126-163
SimRename(idx, action, c) ==
    LET mapping == action.mapping
        path == ActionPath(idx, "mapping")
        new_names == SelectSeq([ k \in 1..Len(mapping) |-> mapping[k][2] ],
                               LAMBDA v : ~BlankTarget(v))
        dup_new == FindDupes(new_names)
    IN  IF Len(mapping) = 0
        THEN Sim(c, <<>>, << Issue(path, EmptyListMessage("rename_columns")) >>)
        ELSE SimRenameEntries(mapping, 1, path,
                 Sim(c, <<>>,
                     IF dup_new # {} THEN << Issue(path, DupTargetsMessage(dup_new)) >>
                     ELSE <<>>))

\* the loop of lines 168-177, from entry k on
RECURSIVE SimDropEntries(_, _, _, _)
SimDropEntries(columns, k, path, st) ==
    IF k > Len(columns) THEN st
    ELSE IF columns[k] \notin st.cols
    THEN SimDropEntries(columns, k + 1, path,
             Sim(st.cols, st.errors,
                 Append(st.warnings, Issue(path, MissingMessage("drop_columns", columns[k])))))
    ELSE SimDropEntries(columns, k + 1, path,
             Sim(st.cols \ { columns[k] }, st.errors, st.warnings))

\* drop_columns branch, lines 165-177
SimDrop(idx, action, c) ==
    LET path == ActionPath(idx, "columns")
    IN  SimDropEntries(action.columns, 1, path,
            Sim(c, <<>>,
                IF action.columns = <<>> THEN << Issue(path, EmptyListMessage("drop_columns")) >>
                ELSE <<>>))

\* the warnings of a loop "for c in names: if c not in cols: warnings.append(...)"
MissingWarnings(kind, path, names, c) ==
    LET One(n) == IF n \notin c THEN << Issue(path, MissingMessage(kind, n)) >> ELSE <<>>
    IN  FlatMap(One, names)

\* a variant of SimRefs that reports a missing column as an error
SimRefs_MissingIsError(kind, path, names, c) ==
    Sim(c, MissingWarnings(kind, path, names, c),
        IF names = <<>> THEN << Issue(path, EmptyListMessage(kind)) >> ELSE <<>>)

\* the branches that only read the column set: parse_numeric, parse_dates
\* (lines 199-215) take a list; trim_whitespace and deduplicate_rows
\* (lines 179-193, 217-230) take an optional list
SimRefs(kind, path, names, c) ==
    Sim(c, <<>>,
        (IF names = <<>> THEN << Issue(path, EmptyListMessage(kind)) >> ELSE <<>>)
        \o MissingWarnings(kind, path, names, c))

KnownTags == { "drop_columns", "rename_columns", "standardize_nulls", "parse_numeric",
               "parse_dates", "trim_whitespace", "deduplicate_rows" }

\* one iteration of the loop of _validate_actions_against_columns (lines
\* 123-232) on the action at 0-based position idx: the new column set and
\* what the iteration appends to errors and warnings
SimAction(idx, action, c) ==
    LET kind == action.action
    IN  CASE kind = "rename_columns" -> SimRename(idx, action, c)
          [] kind = "drop_columns" -> SimDrop(idx, action, c)
          [] kind = "trim_whitespace" ->
                IF IsNone(action.columns) THEN Sim(c, <<>>, <<>>)
                ELSE SimRefs(kind, ActionPath(idx, "columns"), Val(action.columns), c)
          [] kind = "standardize_nulls" -> Sim(c, <<>>, <<>>)
          [] kind = "parse_numeric" -> SimRefs(kind, ActionPath(idx, "columns"), action.columns, c)
          [] kind = "parse_dates" -> SimRefs(kind, ActionPath(idx, "columns"), action.columns, c)
          [] kind = "deduplicate_rows" ->
                IF IsNone(action.subset) THEN Sim(c, <<>>, <<>>)
                ELSE SimRefs(kind, ActionPath(idx, "subset"), Val(action.subset), c)
          [] OTHER ->
                Sim(c, << Issue(ActionPath(idx, "action"), "unknown action '" \o kind \o "'") >>,
                    <<>>)

\* lines 234-260: the rules' columns against the final column set
FinalWarnings(p, c) ==
    MissingWarnings("required", "validations.required", RuleColumns(p.validations.required), c)
    \o MissingWarnings("ranges", "validations.ranges", RuleColumns(p.validations.ranges), c)
    \o MissingWarnings("enums", "validations.enums", RuleColumns(p.validations.enums), c)

PlanValidationResult(ok, e, w, final) ==
    [ok |-> ok, errors |-> e, warnings |-> w, final_columns |-> final]

\* a variant of ValidateResult whose ok also requires that there is no warning
ValidateResult_NoWarnings(e, w, final) ==
    PlanValidationResult(Len(e) = 0 /\ Len(w) = 0, e, w, final)

\* validate_plan, lines 63-64
ValidateResult(e, w, final) == PlanValidationResult(Len(e) = 0, e, w, final)

\* a variant of EnsureOutcome that raises without the warnings
EnsureOutcome_DropsWarnings(r) ==
    IF ~r.ok
    THEN [raised |-> "PlanValidationError", errors |-> r.errors, warnings |-> <<>>]
    ELSE [raised |-> "", result |-> r]

\* ensure_valid_plan, lines 32-38: the PlanValidationError raised (its errors
\* and warnings are "errors or []" and "warnings or []"), or the result returned
EnsureOutcome(r) ==
    IF ~r.ok
    THEN [raised |-> "PlanValidationError",
          errors |-> IF r.errors = <<>> THEN <<>> ELSE r.errors,
          warnings |-> IF r.warnings = <<>> THEN <<>> ELSE r.warnings]
    ELSE [raised |-> "", result |-> r]


-----------------------------------------------------------------------------
(* src/pipeline/executor.py: the dataset and the column transforms *)

\* a pandas DataFrame of text cells: column labels in order (labels may repeat
\* after a rename) and rows of cells aligned with the labels
DataFrame(columns, rows) == [columns |-> columns, rows |-> rows]

\* outputs/ before any job: the directories cleaned, reports and plans, each a
\* function from the job ids that have a file to the content of the file
NoOutputs == [cleaned |-> <<>>, reports |-> <<>>, plans |-> <<>>]

\* "col in out.columns"
HasColumn(d, col) == \E i \in 1..Len(d.columns) : d.columns[i] = col

\* positions of the label col
Positions(d, col) == { i \in 1..Len(d.columns) : d.columns[i] = col }

\* d[col] selects one Series only if the label occurs once; with a repeated
\* label it is a DataFrame, which has no .str accessor
IsSeries(d, col) == Cardinality(Positions(d, col)) = 1

\* the outcome of one call: the dataset, the record for the report, and the
\* exception raised ("" when the call returns)
Outcome(d, rec, e) == [df |-> d, rec |-> rec, exc |-> e]

\* out[col] = f(out[col]) cell by cell, for a label that occurs once
MapColumn(Op(_), d, col) ==
    DataFrame(d.columns,
              [ r \in 1..Len(d.rows) |->
                  [ i \in 1..Len(d.columns) |->
                      IF d.columns[i] = col THEN Op(d.rows[r][i]) ELSE d.rows[r][i] ] ])

\* the loop of _trim_whitespace (lines 90-92) from entry k of cols on
RECURSIVE TrimLoop(_, _, _)
TrimLoop(d, cols_, k) ==
    IF k > Len(cols_) THEN [df |-> d, exc |-> ""]
    ELSE IF ~HasColumn(d, cols_[k]) THEN TrimLoop(d, cols_, k + 1)
    ELSE IF ~IsSeries(d, cols_[k]) THEN [df |-> d, exc |-> "AttributeError"]
    ELSE TrimLoop(MapColumn(Strip, d, cols_[k]), cols_, k + 1)

\* _trim_whitespace
TrimWhitespace(d, columns) ==
    TrimLoop(d, IF IsNone(columns) THEN d.columns ELSE Val(columns), 1)

\* str.lower() on the characters of the model
LowerCh(ch) ==
    CASE ch = "N" -> "n"
      [] ch = "A" -> "a"
      [] ch = "O" -> "o"
      [] OTHER -> ch

Lower(s) == [ i \in 1..Len(s) |-> LowerCh(s[i]) ]

\* one cell of _standardize_nulls (lines 100-102)
NullCell(token_set, v) ==
    LET s_ == Strip(v) IN IF Lower(s_) \in token_set THEN <<>> ELSE s_

\* the loop of _standardize_nulls (lines 99-102) from column k on
RECURSIVE NullsLoop(_, _, _)
NullsLoop(d, token_set, k) ==
    IF k > Len(d.columns) THEN [df |-> d, exc |-> ""]
    ELSE IF ~IsSeries(d, d.columns[k]) THEN [df |-> d, exc |-> "AttributeError"]
    ELSE LET One(v) == NullCell(token_set, v)
         IN  NullsLoop(MapColumn(One, d, d.columns[k]), token_set, k + 1)

\* _standardize_nulls
StandardizeNulls(d, null_tokens) ==
    NullsLoop(d, { Lower(Strip(null_tokens[i])) : i \in 1..Len(null_tokens) }, 1)

\* the entries _rename_columns applies (lines 110-112): source present and
\* target truthy, in mapping order
RenameApplied(d, mapping) ==
    SelectSeq(mapping, LAMBDA e : HasColumn(d, e[1]) /\ e[2] # "")

\* applied.get(c, c)
RenameLabel(applied, c) ==
    IF \E k \in 1..Len(applied) : applied[k][1] = c
    THEN applied[CHOOSE k \in 1..Len(applied) : applied[k][1] = c][2]
    ELSE c

\* _rename_columns: DataFrame.rename maps every label through applied at once
RenameColumns(d, mapping) ==
    LET applied == RenameApplied(d, mapping)
    IN  [ df |-> DataFrame([ i \in 1..Len(d.columns) |-> RenameLabel(applied, d.columns[i]) ],
                            d.rows),
          applied |-> applied ]

\* the subsequence of s at the positions keep (in order)
RECURSIVE Pick(_, _, _)
Pick(s, keep, i) ==
    IF i > Len(s) THEN <<>>
    ELSE (IF i \in keep THEN << s[i] >> ELSE <<>>) \o Pick(s, keep, i + 1)

\* _drop_columns
DropColumns(d, columns) ==
    LET to_drop == SelectSeq(columns, LAMBDA c : HasColumn(d, c))
        keep == { i \in 1..Len(d.columns) : d.columns[i] \notin Range(to_drop) }
    IN  [ df |-> DataFrame(Pick(d.columns, keep, 1),
                            [ r \in 1..Len(d.rows) |-> Pick(d.rows[r], keep, 1) ]),
          dropped |-> to_drop ]

\* DataFrame.empty
IsEmpty(d) == Len(d.columns) = 0 \/ Len(d.rows) = 0

\* the key of row r for DataFrame.duplicated: the cells under the subset labels
RowKey(d, subset, r) == Pick(d.rows[r], { i \in 1..Len(d.columns) : d.columns[i] \in subset }, 1)

\* a variant of DropDuplicates that keeps the last row of each key
DropDuplicates_KeepLast(d, subset) ==
    LET last == { r \in 1..Len(d.rows) :
                    \A q \in (r + 1)..Len(d.rows) : RowKey(d, subset, q) # RowKey(d, subset, r) }
    IN  DataFrame(d.columns, Pick(d.rows, last, 1))

\* a variant of DropDuplicates that removes only the first duplicate it finds
DropDuplicates_OneAtATime(d, subset) ==
    LET dup == { r \in 1..Len(d.rows) :
                   \E q \in 1..(r - 1) : RowKey(d, subset, q) = RowKey(d, subset, r) }
        gone == IF dup = {} THEN {} ELSE { CHOOSE r \in dup : \A q \in dup : r <= q }
    IN  DataFrame(d.columns, Pick(d.rows, (1..Len(d.rows)) \ gone, 1))

\* drop_duplicates(keep="first") on the labels subset, then reset_index
DropDuplicates(d, subset) ==
    LET first == { r \in 1..Len(d.rows) :
                     \A q \in 1..(r - 1) : RowKey(d, subset, q) # RowKey(d, subset, r) }
    IN  DataFrame(d.columns, Pick(d.rows, first, 1))


-----------------------------------------------------------------------------
(* src/pipeline/executor.py: _parse_numeric *)

Digits == << "0", "1", "2", "3", "4", "5", "6", "7", "8", "9" >>

IsDigit(ch) == ch \in Range(Digits)

\* the letters that occur in the model's text
Letters == { "o", "O", "x", "n", "a", "N", "A" }

\* \w of the regular expressions
IsWord(ch) == IsDigit(ch) \/ ch \in Letters \/ ch = "_"

CurrencyChars == { "$", "€", "£", "¥" }

Filter(s, Keep(_)) == SelectSeq(s, Keep)

\* .str.replace("o", "0").str.replace("O", "0")  (line 148)
FixTypos(s) == [ i \in 1..Len(s) |-> IF s[i] \in { "o", "O" } THEN "0" ELSE s[i] ]

\* re.sub(r"[\$...]", "", s)  (line 152)
StripCurrency(s) == Filter(s, LAMBDA ch : ch \notin CurrencyChars)

\* re.sub(r"[,\s]", "", s)  (line 156)
StripCommas(s) == Filter(s, LAMBDA ch : ~(ch = "," \/ IsSpace(ch)))

\* position i of s matches (?<=\d)\.(?=\d{3}\b)
IsThousandsDot(s, i) ==
    /\ s[i] = "."
    /\ i > 1 /\ IsDigit(s[i - 1])
    /\ i + 3 <= Len(s)
    /\ \A k \in (i + 1)..(i + 3) : IsDigit(s[k])
    /\ (i + 4 <= Len(s) => ~IsWord(s[i + 4]))

\* re.sub(r"(?<=\d)\.(?=\d{3}\b)", "", s)  (line 158)
StripThousandsDots(s) == Pick(s, { i \in 1..Len(s) : ~IsThousandsDot(s, i) }, 1)

\* re.sub(r"[^0-9\.\-]", "", s)  (line 161)
KeepNumeric(s) == Filter(s, LAMBDA ch : IsDigit(ch) \/ ch = "." \/ ch = "-")

\* re.sub(r"\.{2,}", ".", s)  (line 164)
CollapseDots(s) == Pick(s, { i \in 1..Len(s) : ~(s[i] = "." /\ i > 1 /\ s[i - 1] = ".") }, 1)

\* index of the first "." of s, or 0
FirstDot(s) ==
    IF \E i \in 1..Len(s) : s[i] = "."
    THEN CHOOSE i \in 1..Len(s) : s[i] = "." /\ \A k \in 1..(i - 1) : s[k] # "."
    ELSE 0

\* a variant of CutDecimals that removes a trailing "." only
CutDecimals_TrailingDotOnly(s) ==
    IF s # <<>> /\ s[Len(s)] = "." THEN SubSeq(s, 1, Len(s) - 1) ELSE s

\* re.sub(r"\..*$", "", s)  (line 171)
CutDecimals(s) == IF FirstDot(s) = 0 THEN s ELSE SubSeq(s, 1, FirstDot(s) - 1)

AllDigits(s) == \A i \in 1..Len(s) : IsDigit(s[i])

\* re.sub(r"^(\-?\d+)\.$", r"\1.0", s)  (line 175)
FixTrailingDot(s) ==
    LET body == IF s # <<>> /\ Head(s) = "-" THEN Tail(s) ELSE s
    IN  IF Len(body) >= 2 /\ body[Len(body)] = "." /\ AllDigits(SubSeq(body, 1, Len(body) - 1))
        THEN Append(s, "0")
        ELSE s

\* the unsigned part of a float literal over digits and ".": digits with at
\* most one ".", and at least one digit
IsUnsignedFloat(b) ==
    LET d == FirstDot(b)
    IN  IF d = 0 THEN b # <<>> /\ AllDigits(b)
        ELSE /\ AllDigits(SubSeq(b, 1, d - 1))
             /\ AllDigits(SubSeq(b, d + 1, Len(b)))
             /\ Len(b) >= 2

\* float(x) does not raise, for x over digits, "." and "-"
IsFloatLiteral(x) ==
    IF x # <<>> /\ Head(x) = "-" THEN IsUnsignedFloat(Tail(x)) ELSE IsUnsignedFloat(x)

RECURSIVE StripLeadingZeros(_)
StripLeadingZeros(s) ==
    IF s # <<>> /\ Head(s) = "0" THEN StripLeadingZeros(Tail(s)) ELSE s

RECURSIVE StripTrailingZeros(_)
StripTrailingZeros(s) ==
    IF s # <<>> /\ s[Len(s)] = "0" THEN StripTrailingZeros(SubSeq(s, 1, Len(s) - 1)) ELSE s

RECURSIVE NatText(_)
\* the decimal digits of a natural number
NatText(n) == IF n < 10 THEN << Digits[n + 1] >> ELSE Append(NatText(n \div 10), Digits[(n % 10) + 1])

\* repr(float(x)) for a float literal x of fewer than 16 significant digits:
\* positional notation, or exponent notation below 1e-04
FloatRepr(x) ==
    LET neg == Head(x) = "-"
        b == IF neg THEN Tail(x) ELSE x
        d == FirstDot(b)
        ip == StripLeadingZeros(IF d = 0 THEN b ELSE SubSeq(b, 1, d - 1))
        fp == StripTrailingZeros(IF d = 0 THEN <<>> ELSE SubSeq(b, d + 1, Len(b)))
        sig == StripLeadingZeros(fp)
        zeros == Len(fp) - Len(sig)
        sign == IF neg THEN << "-" >> ELSE <<>>
        exp == NatText(zeros + 1)
    IN  IF ip = <<>> /\ fp # <<>> /\ zeros >= 4
        THEN sign \o << Head(sig) >>
                  \o (IF Len(sig) > 1 THEN << "." >> \o Tail(sig) ELSE <<>>)
                  \o << "e", "-" >> \o (IF Len(exp) < 2 THEN << "0" >> ELSE <<>>) \o exp
        ELSE sign \o (IF ip = <<>> THEN << "0" >> ELSE ip) \o << "." >>
                  \o (IF fp = <<>> THEN << "0" >> ELSE fp)

\* _to_float_str  (lines 177-183)
ToFloatStr(x) == IF x = <<>> THEN <<>> ELSE IF IsFloatLiteral(x) THEN FloatRepr(x) ELSE <<>>

\* a variant of CleanNumeric that fixes the typos after the currency and
\* thousands steps instead of before them
CleanNumeric_TyposLate(v, numeric_type, allow_currency, allow_thousands, fix_typos) ==
    LET c1 == Strip(v)
        c2 == IF allow_currency THEN StripCurrency(c1) ELSE c1
        c3 == IF allow_thousands THEN StripThousandsDots(StripCommas(c2)) ELSE c2
        c4 == IF fix_typos THEN FixTypos(c3) ELSE c3
        c5 == CollapseDots(KeepNumeric(c4))
    IN  IF numeric_type = "int" THEN CutDecimals(c5) ELSE ToFloatStr(FixTrailingDot(c5))

\* one cell through lines 145-185
CleanNumeric(v, numeric_type, allow_currency, allow_thousands, fix_typos) ==
    LET c1 == Strip(v)
        c2 == IF fix_typos THEN FixTypos(c1) ELSE c1
        c3 == IF allow_currency THEN StripCurrency(c2) ELSE c2
        c4 == IF allow_thousands THEN StripThousandsDots(StripCommas(c3)) ELSE c3
        c5 == CollapseDots(KeepNumeric(c4))
    IN  IF numeric_type = "int" THEN CutDecimals(c5) ELSE ToFloatStr(FixTrailingDot(c5))

\* changed = int((before != cleaned).sum())  (line 187), for the label col
ChangedCells(before, after, col) ==
    Cardinality({ r \in 1..Len(before.rows) :
                    \E i \in Positions(before, col) : before.rows[r][i] # after.rows[r][i] })

\* the loop of _parse_numeric (lines 139-190) from entry k of columns on; stats
\* is the list of (column, entry) pairs in insertion order
RECURSIVE ParseNumericLoop(_, _, _, _, _)
ParseNumericLoop(d, a, k, stats, done) ==
    IF k > Len(a.columns) THEN [df |-> d, stats |-> stats, exc |-> ""]
    ELSE LET col == a.columns[k]
             One(v) == CleanNumeric(v, a.numeric_type, a.allow_currency,
                                    a.allow_thousands_separators, a.fix_common_typos)
             after == MapColumn(One, d, col)
             put(entry) == IF col \in done
                           THEN [ j \in 1..Len(stats) |->
                                    IF stats[j][1] = col THEN << col, entry >> ELSE stats[j] ]
                           ELSE Append(stats, << col, entry >>)
         IN  IF ~HasColumn(d, col)
             THEN ParseNumericLoop(d, a, k + 1,
                      put([skipped |-> TRUE, reason |-> "missing column"]), done \cup { col })
             ELSE IF ~IsSeries(d, col)
             THEN [df |-> d, stats |-> stats, exc |-> "AttributeError"]
             ELSE ParseNumericLoop(after, a, k + 1,
                      put([changed_cells |-> ChangedCells(d, after, col)]), done \cup { col })

\* _parse_numeric
ParseNumeric(d, a) == ParseNumericLoop(d, a, 1, <<>>, {})


-----------------------------------------------------------------------------
(* src/pipeline/executor.py: _run_validations *)

\* the one Series d[col], for a label that occurs once
Column(d, col) ==
    LET i == CHOOSE j \in 1..Len(d.columns) : d.columns[j] = col
    IN  [ r \in 1..Len(d.rows) |-> d.rows[r][i] ]

RECURSIVE DigitsValue(_)
DigitsValue(s) ==
    IF s = <<>> THEN 0
    ELSE 10 * DigitsValue(SubSeq(s, 1, Len(s) - 1))
         + ((CHOOSE k \in 1..10 : Digits[k] = s[Len(s)]) - 1)

\* index of the exponent marker of a repr such as 1e-05, or 0
ExpMark(s) == IF \E i \in 1..Len(s) : s[i] = "e" THEN CHOOSE i \in 1..Len(s) : s[i] = "e" ELSE 0

\* text that pd.to_numeric converts, among the text the model can hold: a
\* float literal, or a float repr in exponent notation as FloatRepr writes it
\* (one digit before the point, a negative exponent)
IsNumericText(s) ==
    LET m == ExpMark(s)
        lit == SubSeq(s, 1, m - 1)
        b == IF lit # <<>> /\ Head(lit) = "-" THEN Tail(lit) ELSE lit
    IN  IF m = 0 THEN IsFloatLiteral(s)
        ELSE /\ IsFloatLiteral(lit)
             /\ Len(b) >= 1 /\ IsDigit(b[1]) /\ (Len(b) >= 2 => b[2] = ".")
             /\ m + 2 <= Len(s) /\ s[m + 1] = "-"
             /\ AllDigits(SubSeq(s, m + 2, Len(s)))
             /\ DigitsValue(SubSeq(s, m + 2, Len(s))) >= 1

\* the value of numeric text as sign, whole part, and whether a fraction is left
NumericValue(s) ==
    LET m == ExpMark(s)
        lit == IF m = 0 THEN s ELSE SubSeq(s, 1, m - 1)
        neg == Head(lit) = "-"
        b == IF neg THEN Tail(lit) ELSE lit
        d == FirstDot(b)
        ip == DigitsValue(IF d = 0 THEN b ELSE SubSeq(b, 1, d - 1))
        fp == StripTrailingZeros(IF d = 0 THEN <<>> ELSE SubSeq(b, d + 1, Len(b)))
    IN  IF m = 0 THEN [neg |-> neg, whole |-> ip, frac |-> fp # <<>>]
        ELSE [neg |-> neg, whole |-> 0, frac |-> ip > 0 \/ fp # <<>>]

\* numeric < bound, for an integral bound
Below(n, bound) ==
    IF n.neg THEN n.whole > -bound \/ (n.whole = -bound /\ n.frac)
    ELSE n.whole < bound

\* numeric > bound, for an integral bound
Above(n, bound) ==
    IF n.neg THEN n.whole < -bound
    ELSE n.whole > bound \/ (n.whole = bound /\ n.frac)

\* code-point order of the characters of the model's text
CharOrd == << "\t", " ", "$", ",", "-", ".", "0", "1", "2", "3", "4", "5", "6", "7", "8", "9",
              "A", "N", "O", "_", "a", "e", "n", "o", "x", "£", "¥", "€" >>

CharRank(ch) == CHOOSE k \in 1..Len(CharOrd) : CharOrd[k] = ch

RECURSIVE TextLess(_, _)
\* a < b for str
TextLess(a, b) ==
    IF b = <<>> THEN FALSE
    ELSE IF a = <<>> THEN TRUE
    ELSE IF Head(a) = Head(b) THEN TextLess(Tail(a), Tail(b))
    ELSE CharRank(Head(a)) < CharRank(Head(b))

RECURSIVE SortedTexts(_)
\* sorted(S) for a set of str
SortedTexts(S) ==
    IF S = {} THEN <<>>
    ELSE LET least == CHOOSE v \in S : \A w \in S \ { v } : TextLess(v, w)
         IN  << least >> \o SortedTexts(S \ { least })

\* bad[:50]  (line 293)
BadValuesCap == 50

RequiredResult(d, rule) == [column |-> rule.column, ok |-> HasColumn(d, rule.column)]

\* one range rule on a present column (lines 251-276)
RangeResult(d, rule) ==
    LET s_ == [ r \in 1..Len(d.rows) |-> Strip(Column(d, rule.column)[r]) ]
        checked == { r \in 1..Len(s_) : s_[r] # <<>> /\ IsNumericText(s_[r]) }
        total == Cardinality(checked)
        below == IF IsNone(rule.min) THEN 0
                 ELSE Cardinality({ r \in checked : Below(NumericValue(s_[r]), Val(rule.min)) })
        above == IF IsNone(rule.max) THEN 0
                 ELSE Cardinality({ r \in checked : Above(NumericValue(s_[r]), Val(rule.max)) })
        violations == below + above
    IN  IF total = 0
        THEN [column |-> rule.column, ok |-> TRUE, checked |-> 0, violations |-> 0]
        ELSE [column |-> rule.column, ok |-> violations = 0, checked |-> total,
              violations |-> violations, min |-> rule.min, max |-> rule.max]

\* a variant of EnumResult that counts the bad values it lists instead of all
\* the bad values
EnumResult_CountsListed(d, rule) ==
    LET allowed == Range(rule.allowed)
        vals == { Strip(Column(d, rule.column)[r]) : r \in 1..Len(d.rows) } \ { <<>> }
        bad == SortedTexts({ v \in vals : v \notin allowed })
        listed == SubSeq(bad, 1, IF Len(bad) < BadValuesCap THEN Len(bad) ELSE BadValuesCap)
    IN  [column |-> rule.column, ok |-> Len(bad) = 0, bad_values |-> listed,
         bad_value_count |-> Len(listed), allowed_count |-> Cardinality(allowed)]

\* one enum rule on a present column (lines 284-297)
EnumResult(d, rule) ==
    LET allowed == Range(rule.allowed)
        vals == { Strip(Column(d, rule.column)[r]) : r \in 1..Len(d.rows) } \ { <<>> }
        bad == SortedTexts({ v \in vals : v \notin allowed })
    IN  [column |-> rule.column, ok |-> Len(bad) = 0,
         bad_values |-> SubSeq(bad, 1, IF Len(bad) < BadValuesCap THEN Len(bad) ELSE BadValuesCap),
         bad_value_count |-> Len(bad), allowed_count |-> Cardinality(allowed)]

MissingResult(rule) == [column |-> rule.column, ok |-> FALSE, reason |-> "missing column"]

\* a rule whose column label occurs more than once: d[col].astype(str).str raises
RuleRaises(d, rules) ==
    \E i \in 1..Len(rules) : HasColumn(d, rules[i].column) /\ ~IsSeries(d, rules[i].column)

\* _run_validations: the results, or the exception a repeated label raises
RunValidations(d, p) ==
    LET v == p.validations
    IN  IF RuleRaises(d, v.ranges) \/ RuleRaises(d, v.enums)
        THEN [results |-> None, exc |-> "AttributeError"]
        ELSE [ results |-> Some(
                 [ required |-> [ i \in 1..Len(v.required) |-> RequiredResult(d, v.required[i]) ],
                   ranges |-> [ i \in 1..Len(v.ranges) |->
                                  IF HasColumn(d, v.ranges[i].column)
                                  THEN RangeResult(d, v.ranges[i])
                                  ELSE MissingResult(v.ranges[i]) ],
                   enums |-> [ i \in 1..Len(v.enums) |->
                                 IF HasColumn(d, v.enums[i].column)
                                 THEN EnumResult(d, v.enums[i])
                                 ELSE MissingResult(v.enums[i]) ] ]),
               exc |-> "" ]


-----------------------------------------------------------------------------
(* execute_plan, one action of the plan (executor.py lines 32-81) *)

\* the dataset and the report record after the action, or the exception.
\* empty_subset_raises chooses what DataFrame.duplicated does with subset=[]
\* on a non-empty dataset, which depends on the pandas build: it raises
\* ValueError or finds no duplicate.
ApplyAction(d, action, empty_subset_raises) ==
    LET kind == action.action
    IN  CASE kind = "trim_whitespace" ->
                LET t == TrimWhitespace(d, action.columns)
                IN  Outcome(t.df, [action |-> kind, columns |-> action.columns,
                                   columns_seen |-> d.columns], t.exc)
          [] kind = "standardize_nulls" ->
                LET t == StandardizeNulls(d, action.null_tokens)
                IN  Outcome(t.df, [action |-> kind, null_tokens |-> action.null_tokens], t.exc)
          [] kind = "rename_columns" ->
                LET t == RenameColumns(d, action.mapping)
                IN  Outcome(t.df, [action |-> kind, mapping |-> action.mapping,
                                   applied |-> t.applied], "")
          [] kind = "drop_columns" ->
                LET t == DropColumns(d, action.columns)
                IN  Outcome(t.df, [action |-> kind, columns |-> action.columns,
                                   dropped |-> t.dropped], "")
          [] kind = "parse_numeric" ->
                LET t == ParseNumeric(d, action)
                IN  Outcome(t.df, [action |-> kind, columns |-> action.columns,
                                   stats |-> t.stats], t.exc)
          [] kind = "parse_dates" ->
                \* lines 64-69 pass output_format=, which _parse_dates (line
                \* 195) does not accept: the call raises TypeError
                Outcome(d, None, "TypeError")
          [] kind = "deduplicate_rows" ->
                LET subset == IF IsNone(action.subset) THEN Range(d.columns)
                              ELSE Range(Val(action.subset))
                    after == DropDuplicates(d, subset)
                    rec(a) == [action |-> kind, subset |-> action.subset,
                               dropped_rows |-> Len(d.rows) - Len(a.rows)]
                IN  IF IsEmpty(d) THEN Outcome(d, rec(d), "")
                    ELSE IF \E c \in subset : ~HasColumn(d, c) THEN Outcome(d, None, "KeyError")
                    ELSE IF subset = {}
                    THEN (IF empty_subset_raises THEN Outcome(d, None, "ValueError")
                          ELSE Outcome(d, rec(d), ""))
                    ELSE Outcome(after, rec(after), "")
          [] OTHER -> Outcome(d, None, "ExecutionError: unknown action: " \o kind)

-----------------------------------------------------------------------------
(* The run *)

\* a variant of ValidatePlan that simulates the actions against no columns
\* when no columns are given
ValidatePlan_SimulatesWithoutColumns ==
    /\ pc = "validate_plan"
    /\ errors' = VersionErrors(plan) \o SummaryErrors(plan) \o ValidateValidations(plan).errors
    /\ warnings' = ValidateValidations(plan).warnings
    /\ cols' = IF IsNone(df_columns) THEN {} ELSE Range(Val(df_columns))
    /\ v_idx' = 1
    /\ pc' = "simulate"
    /\ UNCHANGED << plan, df, df_columns, result, ensured, out, report, e_idx, exc, returned >>
    /\ UNCHANGED route_vars

\* validate_plan up to line 61: the plan-only checks
ValidatePlan ==
    /\ pc = "validate_plan"
    /\ LET e == VersionErrors(plan) \o SummaryErrors(plan) \o ValidateValidations(plan).errors
           w == ValidateValidations(plan).warnings
       IN  IF IsNone(df_columns)
           THEN /\ errors' = e
                /\ warnings' = w
                /\ result' = Some(ValidateResult(e, w, None))
                /\ pc' = "ensure_valid_plan"
                /\ UNCHANGED << cols, v_idx >>
           ELSE /\ errors' = e
                /\ warnings' = w
                /\ cols' = Range(Val(df_columns))
                /\ v_idx' = 1
                /\ pc' = "simulate"
                /\ UNCHANGED result
    /\ UNCHANGED << plan, df, df_columns, ensured, out, report, e_idx, exc, returned >>
    /\ UNCHANGED route_vars

\* one iteration of the loop of _validate_actions_against_columns
SimulateAction ==
    /\ pc = "simulate"
    /\ v_idx <= Len(plan.actions)
    /\ LET st == SimAction(v_idx - 1, plan.actions[v_idx], cols)
       IN  /\ cols' = st.cols
           /\ errors' = errors \o st.errors
           /\ warnings' = warnings \o st.warnings
    /\ v_idx' = v_idx + 1
    /\ UNCHANGED << plan, df, df_columns, pc, result, ensured, out, report, e_idx, exc,
                    returned >>
    /\ UNCHANGED route_vars

\* the end of _validate_actions_against_columns and the return of validate_plan
SimulateFinish ==
    /\ pc = "simulate"
    /\ v_idx > Len(plan.actions)
    /\ LET w == warnings \o FinalWarnings(plan, cols)
       IN  /\ warnings' = w
           /\ result' = Some(ValidateResult(errors, w, Some(Sorted(cols))))
    /\ pc' = "ensure_valid_plan"
    /\ UNCHANGED << plan, df, df_columns, cols, errors, v_idx, ensured, out, report, e_idx,
                    exc, returned >>
    /\ UNCHANGED route_vars

\* ensure_valid_plan, after its call of validate_plan returned
EnsureValidPlan ==
    /\ pc = "ensure_valid_plan"
    /\ ensured' = Some(EnsureOutcome(Val(result)))
    /\ pc' = "execute_plan"
    /\ UNCHANGED << plan, df, df_columns, cols, errors, warnings, v_idx, result, out, report,
                    e_idx, exc, returned >>
    /\ UNCHANGED route_vars

\* execute_plan, lines 23-30
ExecuteStart ==
    /\ pc = "execute_plan"
    /\ out' = df
    /\ report' = [plan_version |-> plan.version, summary |-> plan.summary,
                  actions_applied |-> <<>>, warnings |-> <<>>, validations |-> None]
    /\ e_idx' = 1
    /\ pc' = "apply"
    /\ UNCHANGED << plan, df, df_columns, cols, errors, warnings, v_idx, result, ensured, exc,
                    returned >>
    /\ UNCHANGED route_vars

\* a variant of ExecuteAction that works on the caller's dataset in place, as
\* execute_plan would without the df.copy() of line 23
ExecuteAction_InPlace ==
    /\ pc = "apply"
    /\ e_idx <= Len(plan.actions)
    /\ \E empty_subset_raises \in BOOLEAN :
         LET o == ApplyAction(out, plan.actions[e_idx], empty_subset_raises)
         IN  IF o.exc = ""
             THEN /\ out' = o.df
                  /\ df' = o.df
                  /\ report' = [report EXCEPT !.actions_applied = Append(@, o.rec)]
                  /\ e_idx' = e_idx + 1
                  /\ UNCHANGED << pc, exc >>
             ELSE /\ exc' = o.exc
                  /\ pc' = "done"
                  /\ UNCHANGED << out, df, report, e_idx >>
    /\ UNCHANGED << plan, df_columns, cols, errors, warnings, v_idx, result, ensured,
                    returned >>
    /\ UNCHANGED route_vars

\* a variant of ExecuteAction that applies every action to the input dataset
\* instead of the dataset the earlier actions left
ExecuteAction_OnInput ==
    /\ pc = "apply"
    /\ e_idx <= Len(plan.actions)
    /\ \E empty_subset_raises \in BOOLEAN :
         LET o == ApplyAction(df, plan.actions[e_idx], empty_subset_raises)
         IN  IF o.exc = ""
             THEN /\ out' = o.df
                  /\ report' = [report EXCEPT !.actions_applied = Append(@, o.rec)]
                  /\ e_idx' = e_idx + 1
                  /\ UNCHANGED << pc, exc >>
             ELSE /\ exc' = o.exc
                  /\ pc' = "done"
                  /\ UNCHANGED << out, report, e_idx >>
    /\ UNCHANGED << plan, df, df_columns, cols, errors, warnings, v_idx, result, ensured,
                    returned >>
    /\ UNCHANGED route_vars

\* a variant of ExecuteAction that passes over an action of unknown tag and
\* goes on with the next action
ExecuteAction_SkipsUnknown ==
    /\ pc = "apply"
    /\ e_idx <= Len(plan.actions)
    /\ \E empty_subset_raises \in BOOLEAN :
         LET o == ApplyAction(out, plan.actions[e_idx], empty_subset_raises)
         IN  IF o.exc = ""
             THEN /\ out' = o.df
                  /\ report' = [report EXCEPT !.actions_applied = Append(@, o.rec)]
                  /\ e_idx' = e_idx + 1
                  /\ UNCHANGED << pc, exc >>
             ELSE IF plan.actions[e_idx].action \notin KnownTags
             THEN /\ e_idx' = e_idx + 1
                  /\ UNCHANGED << out, report, pc, exc >>
             ELSE /\ exc' = o.exc
                  /\ pc' = "done"
                  /\ UNCHANGED << out, report, e_idx >>
    /\ UNCHANGED << plan, df, df_columns, cols, errors, warnings, v_idx, result, ensured,
                    returned >>
    /\ UNCHANGED route_vars

\* one iteration of the loop of execute_plan
ExecuteAction ==
    /\ pc = "apply"
    /\ e_idx <= Len(plan.actions)
    /\ \E empty_subset_raises \in BOOLEAN :
         LET o == ApplyAction(out, plan.actions[e_idx], empty_subset_raises)
         IN  IF o.exc = ""
             THEN /\ out' = o.df
                  /\ report' = [report EXCEPT !.actions_applied = Append(@, o.rec)]
                  /\ e_idx' = e_idx + 1
                  /\ UNCHANGED << pc, exc >>
             ELSE /\ exc' = o.exc
                  /\ pc' = "done"
                  /\ UNCHANGED << out, report, e_idx >>
    /\ UNCHANGED << plan, df, df_columns, cols, errors, warnings, v_idx, result, ensured,
                    returned >>
    /\ UNCHANGED route_vars

\* execute_plan, lines 83-84
ExecuteFinish ==
    /\ pc = "apply"
    /\ e_idx > Len(plan.actions)
    /\ LET v == RunValidations(out, plan)
       IN  IF v.exc = ""
           THEN /\ report' = [report EXCEPT !.validations = v.results]
                /\ returned' = Some([df |-> out, report |-> report'])
                /\ UNCHANGED exc
           ELSE /\ exc' = v.exc
                /\ UNCHANGED << report, returned >>
    /\ pc' = "done"
    /\ UNCHANGED << plan, df, df_columns, cols, errors, warnings, v_idx, result, ensured, out,
                    e_idx >>
    /\ UNCHANGED route_vars

Next ==
    \/ ValidatePlan
    \/ SimulateAction
    \/ SimulateFinish
    \/ EnsureValidPlan
    \/ ExecuteStart
    \/ ExecuteAction
    \/ ExecuteFinish


-----------------------------------------------------------------------------
(* The checked inputs *)

\* column names that plans and datasets refer to
Names == { "A", "B" }

\* rename targets: names, the empty string and a whitespace-only string
Targets == Names \cup { "", " " }

\* dict[str, str] in insertion order: the keys are distinct
MappingsUpTo(n) ==
    { m \in SeqsUpTo(Names \X Targets, n) :
        \A i, j \in 1..Len(m) : i # j => m[i][1] # m[j][1] }

Optional(S) == { None } \cup { Some(v) : v \in S }

DefaultNullTokens == << <<>>, << "n", "a" >> >>

\* a tag outside the seven, as a plan built around the schema can carry
UnknownTag == "explode_rows"

\* the actions whose column lists are drawn from lists and whose rename
\* mappings are drawn from mappings
ActionsOver(lists, mappings) ==
    { [action |-> "drop_columns", columns |-> c] : c \in lists }
    \cup { [action |-> "rename_columns", mapping |-> m] : m \in mappings }
    \cup { [action |-> "standardize_nulls", null_tokens |-> DefaultNullTokens] }
    \cup { [action |-> "parse_numeric", columns |-> c, numeric_type |-> "float",
            allow_currency |-> FALSE, allow_thousands_separators |-> TRUE,
            fix_common_typos |-> TRUE] : c \in lists }
    \cup { [action |-> "parse_dates", columns |-> c, day_first |-> FALSE,
            output_format |-> "iso_date"] : c \in lists }
    \cup { [action |-> "trim_whitespace", columns |-> c] : c \in Optional(lists) }
    \cup { [action |-> "deduplicate_rows", subset |-> c] : c \in Optional(lists) }
    \cup { [action |-> UnknownTag] }

\* actions that name at most one column
NarrowActions ==
    ActionsOver({ <<>> } \cup { << n >> : n \in Names },
                { <<>> } \cup { << e >> : e \in Names \X Targets })

\* actions that name up to MaxList columns or rename up to MaxMap columns
WideActions == ActionsOver(SeqsUpTo(Names, MaxList), MappingsUpTo(MaxMap))

RequiredRule(c) == [column |-> c]
RangeRule(c, lo, hi) == [column |-> c, min |-> lo, max |-> hi]
EnumRule(c, allowed) == [column |-> c, allowed |-> allowed]
ValidationSpec(rq, rg, en) == [required |-> rq, ranges |-> rg, enums |-> en]

CleaningPlan(version, summary, actions, validations) ==
    [version |-> version, summary |-> summary, actions |-> actions, validations |-> validations]

NoValidations == ValidationSpec(<<>>, <<>>, <<>>)

\* one rule of each kind
SampleValidations ==
    ValidationSpec(<< RequiredRule("B") >>, << RangeRule("A", Some(0), None) >>,
                   << EnumRule("B", << << "1" >> >>) >>)

RangeRules == { RangeRule(c, lo, hi) : c \in Names, lo \in Optional(0..1), hi \in Optional(0..1) }

EnumRules == { EnumRule("A", a) : a \in SeqsUpTo({ << " " >>, << "1" >> }, MaxAllowed) }

\* validation specs with up to MaxRules rules of one kind, or at most one rule
\* of each kind
RuleValidations ==
    { ValidationSpec(rq, <<>>, <<>>) : rq \in SeqsUpTo({ RequiredRule(c) : c \in Names }, MaxRules) }
    \cup { ValidationSpec(<<>>, rg, <<>>) : rg \in SeqsUpTo(RangeRules, MaxRules) }
    \cup { ValidationSpec(<<>>, <<>>, en) : en \in SeqsUpTo(EnumRules, MaxRules) }
    \cup { ValidationSpec(rq, rg, en) :
             rq \in SeqsUpTo({ RequiredRule("B") }, 1),
             rg \in SeqsUpTo(RangeRules, 1),
             en \in SeqsUpTo({ EnumRule("A", <<>>), EnumRule("B", << <<>>, << "1" >> >>) }, 1) }

SampleRows(columns) ==
    LET row(text) == [ i \in 1..Len(columns) |-> text ]
    IN  << row(<< " ", "1" >>), row(<< " ", "1" >>), row(<< "N", "A" >>) >>

\* an upload has at least one column; it may have no row
ColumnSeqs == { << "A" >>, << "A", "B" >> }

FullDatasets == { DataFrame(c, SampleRows(c)) : c \in ColumnSeqs }

Datasets == FullDatasets \cup { DataFrame(c, <<>>) : c \in ColumnSeqs }

Versions == { << "1" >>, <<>>, << " " >>, NonStr }

Summaries == { <<>>, NonStr }

\* the input variables of a run
Inputs(p, d, with_columns) ==
    /\ plan = p
    /\ df = d
    /\ df_columns = IF with_columns THEN Some(d.columns) ELSE None

\* plans of up to MaxActions narrow actions, validated against the columns
DeepRuns ==
    \E a \in SeqsUpTo(NarrowActions, MaxActions) :
      \E d \in FullDatasets :
        Inputs(CleaningPlan(<< "1" >>, <<>>, a, SampleValidations), d, TRUE)

\* plans of at most one wide action
WideRuns ==
    \E a \in SeqsUpTo(WideActions, 1) :
      \E v \in { NoValidations, SampleValidations } :
        \E d \in Datasets, w \in BOOLEAN :
          Inputs(CleaningPlan(<< "1" >>, <<>>, a, v), d, w)

\* plans without actions, over the validation specs
RuleRuns ==
    \E v \in RuleValidations, w \in BOOLEAN :
      Inputs(CleaningPlan(<< "1" >>, <<>>, <<>>, v), DataFrame(<< "A" >>, SampleRows(<< "A" >>)), w)

\* plans without actions, over the versions and summaries
HeaderRuns ==
    \E ver \in Versions, sm \in Summaries, w \in BOOLEAN :
      \E v \in { NoValidations,
                 ValidationSpec(<<>>, << RangeRule("A", Some(1), Some(0)) >>, <<>>) } :
        Inputs(CleaningPlan(ver, sm, <<>>, v), DataFrame(<< "A" >>, <<>>), w)

Init ==
    /\ \/ DeepRuns
       \/ WideRuns
       \/ RuleRuns
       \/ HeaderRuns
    /\ pc = "validate_plan"
    /\ cols = {}
    /\ errors = <<>>
    /\ warnings = <<>>
    /\ v_idx = 0
    /\ result = None
    /\ ensured = None
    /\ out = DataFrame(<<>>, <<>>)
    /\ report = None
    /\ e_idx = 0
    /\ exc = ""
    /\ returned = None
    /\ job_id = 0
    /\ outputs = NoOutputs
    /\ response = None

Spec == Init /\ [][Next]_vars

\* the variables of a run before its first step, apart from its inputs
Fresh ==
    /\ pc = "validate_plan"
    /\ cols = {}
    /\ errors = <<>>
    /\ warnings = <<>>
    /\ v_idx = 0
    /\ result = None
    /\ ensured = None
    /\ out = DataFrame(<<>>, <<>>)
    /\ report = None
    /\ e_idx = 0
    /\ exc = ""
    /\ returned = None
    /\ job_id = 0
    /\ outputs = NoOutputs
    /\ response = None

\* datasets of up to MaxRows rows: one column over three cell values, or two
\* columns over two cell values
RowDatasets ==
    { DataFrame(<< "A" >>, r) :
        r \in SeqsUpTo({ << c >> : c \in { << "1" >>, << "2" >>, << " ", " ", "1" >> } }, MaxRows) }
    \cup { DataFrame(<< "A", "B" >>, r) :
             r \in SeqsUpTo({ << "1" >>, << " ", " ", "1" >> } \X { << "1" >>, << "1", " " >> },
                            MaxRows) }

DedupActions ==
    { [action |-> "deduplicate_rows", subset |-> c] :
        c \in Optional({ <<>>, << "A" >>, << "B" >>, << "A", "B" >> }) }

TrimActions ==
    { [action |-> "trim_whitespace", columns |-> c] :
        c \in Optional({ <<>>, << "A" >>, << "B" >>, << "B", "A" >> }) }

\* plans that repeat one action, or deduplicate after trimming every column
RowPlans ==
    { << a, a >> : a \in DedupActions \cup TrimActions }
    \cup { << [action |-> "trim_whitespace", columns |-> None], a >> : a \in DedupActions }

RowRuns ==
    \E a \in RowPlans, d \in RowDatasets :
      Inputs(CleaningPlan(<< "1" >>, <<>>, a, NoValidations), d, TRUE)

InitRows == RowRuns /\ Fresh

\* the runs over datasets whose rows and cells vary
RowsSpec == InitRows /\ [][Next]_vars

\* the characters of the cell texts given to parse_numeric
NumChars == { "9", ".", "-", ",", "$", " ", "o" }

\* cell texts the short texts do not reach
LongTexts ==
    { << "2", ".", "2", "7", "8", ".", "8", "4", "5" >>,
      << "$", "1", ",", "2", "3", "4", ".", "5", "0" >>,
      << "1", "-", "2" >>,
      << "-", "-", "5" >>,
      << "1", "-", "2", ".", "7" >>,
      << "9", ".", "9", "9", "9" >>,
      << "o", ".", "9", "9", "9" >>,
      << "9", ".", "9", "9", "9", "9" >>,
      << "9", ".", "9", "9", "9", "x" >>,
      << "9", ".", "9", "9", "9", "-" >>,
      << "9", ".", "9", ".", "9" >>,
      << ".", "0", "0", "0", "0", "9" >>,
      << "0", "0", "9", ".", "5", "0" >>,
      << "€", "9", "O" >> }

NumericTexts == SeqsUpTo(NumChars, MaxText) \cup LongTexts

\* one column whose first cell varies and whose second cell differs from its
\* number by whitespace only
NumericDatasets == { DataFrame(<< "A" >>, << << t >>, << << " ", "9" >> >> >>) : t \in NumericTexts }

NumericActions ==
    { [action |-> "parse_numeric", columns |-> << "A" >>, numeric_type |-> ty,
       allow_currency |-> cu, allow_thousands_separators |-> th, fix_common_typos |-> ft] :
        ty \in { "int", "float" }, cu \in BOOLEAN, th \in BOOLEAN, ft \in BOOLEAN }

NumericRuns ==
    \E a \in NumericActions, d \in NumericDatasets :
      Inputs(CleaningPlan(<< "1" >>, <<>>, << a >>, NoValidations), d, TRUE)

InitNumeric == NumericRuns /\ Fresh

\* the runs of one parse_numeric action over the cell texts and the flags
NumericSpec == InitNumeric /\ [][Next]_vars

-----------------------------------------------------------------------------
(* Properties *)

Action(i) == plan.actions[i]

AllTagsKnown == \A i \in 1..Len(plan.actions) : Action(i).action \in KnownTags

Executed == pc = "done"

Validated == result # None

\* the columns an action names
NamedColumns(a) ==
    CASE a.action \in { "drop_columns", "parse_numeric", "parse_dates" } -> Range(a.columns)
      [] a.action = "rename_columns" -> { a.mapping[k][1] : k \in 1..Len(a.mapping) }
      [] a.action = "trim_whitespace" -> IF IsNone(a.columns) THEN {} ELSE Range(Val(a.columns))
      [] a.action = "deduplicate_rows" -> IF IsNone(a.subset) THEN {} ELSE Range(Val(a.subset))
      [] OTHER -> {}

\* C1: for a plan whose actions all carry known tags execute_plan returns a
\* (dataset, report) pair; it raises only on an unrecognised tag, and then
\* raises ExecutionError
C1_RaisesOnlyOnUnknownTag ==
    Executed =>
      /\ AllTagsKnown => (returned # None /\ exc = "")
      /\ exc # "" =>
           \E i \in 1..Len(plan.actions) :
             /\ Action(i).action \notin KnownTags
             /\ exc = "ExecutionError: unknown action: " \o Action(i).action

\* a plan of one parse_dates action: execute_plan passes output_format to
\* _parse_dates, which takes no such parameter, and the call raises TypeError
C1_Witness ==
    /\ Executed
    /\ Len(plan.actions) = 1
    /\ Action(1).action = "parse_dates"
    /\ AllTagsKnown
    /\ exc = "TypeError"
    /\ returned = None

\* C2: whenever execute_plan returns, final_columns of validate_plan (called
\* with the dataset's columns) is the sorted set of the column names of the
\* dataset execute_plan returns
C2_FinalColumnsMirrorExecution ==
    (Executed /\ returned # None /\ df_columns # None) =>
      Val(result).final_columns = Some(Sorted(Range(Val(returned).df.columns)))

\* a rename that swaps A and B: the validator applies the entries one after
\* the other and ends with the column A alone, the executor applies them at
\* once and returns the columns B, A
C2_Witness ==
    /\ Executed
    /\ df_columns = Some(<< "A", "B" >>)
    /\ Len(plan.actions) = 1
    /\ Action(1).action = "rename_columns"
    /\ Action(1).mapping = << << "A", "B" >>, << "B", "A" >> >>
    /\ Val(result).ok
    /\ Val(result).final_columns = Some(<< "A" >>)
    /\ returned # None
    /\ Val(returned).df.columns = << "B", "A" >>

\* C3: an action of execute_plan that names a column absent from the dataset
\* raises no error and execution goes on with the next action; when every
\* column it names is absent the dataset is left as it was
C3_AbsentColumnIsNoOp ==
    [][ (/\ pc = "apply"
         /\ e_idx <= Len(plan.actions)
         /\ \E c \in NamedColumns(Action(e_idx)) : ~HasColumn(out, c))
        => /\ exc' = ""
           /\ e_idx' = e_idx + 1
           /\ Len(report'.actions_applied) = e_idx
           /\ (\A c \in NamedColumns(Action(e_idx)) : ~HasColumn(out, c)) => out' = out ]_vars

\* deduplicate_rows on the absent column B of a dataset with rows: KeyError
C3_Witness ==
    /\ Executed
    /\ df.columns = << "A" >>
    /\ ~IsEmpty(df)
    /\ Len(plan.actions) = 1
    /\ Action(1).action = "deduplicate_rows"
    /\ Action(1).subset = Some(<< "B" >>)
    /\ exc = "KeyError"
    /\ returned = None

\* C4: the result of validate_plan has ok = true exactly when its errors list
\* is empty, whatever its warnings
C4_OkIffNoErrors ==
    Validated => (Val(result).ok <=> Val(result).errors = <<>>)

C4_Witness ==
    /\ Validated
    /\ Val(result).ok
    /\ Len(Val(result).warnings) >= 2

\* C5: ensure_valid_plan raises PlanValidationError exactly when the result of
\* validate_plan has ok = false, the error carries that result's errors and
\* warnings, and otherwise ensure_valid_plan returns that result
C5_EnsureRaisesIffNotOk ==
    ensured # None =>
      LET r == Val(result)
          o == Val(ensured)
      IN  IF r.ok
          THEN o.raised = "" /\ o.result = r
          ELSE /\ o.raised = "PlanValidationError"
               /\ o.errors = r.errors
               /\ o.warnings = r.warnings

C5_Witness ==
    /\ ensured # None
    /\ Val(ensured).raised = "PlanValidationError"
    /\ Val(ensured).errors # <<>>
    /\ Val(ensured).warnings # <<>>

\* the plan-only problems: version, summary, a range with min > max, an enum
\* with nothing allowed
StructuralError ==
    \/ plan.version \in { NonStr, <<>>, << " " >> }
    \/ plan.summary = NonStr
    \/ \E i \in 1..Len(plan.validations.ranges) :
         LET rr == plan.validations.ranges[i]
         IN  rr.min # None /\ rr.max # None /\ rr.min[1] > rr.max[1]
    \/ \E i \in 1..Len(plan.validations.enums) : Len(plan.validations.enums[i].allowed) = 0

\* the paths of the issues that do not come from the action list
PlanOnlyPaths ==
    { "version", "summary", "validations.required" }
    \cup { "validations.ranges[" \o ToString(i - 1) \o "]" : i \in 1..Len(plan.validations.ranges) }
    \cup { "validations.enums[" \o ToString(i - 1) \o "].allowed" :
             i \in 1..Len(plan.validations.enums) }

\* C6: without a column set ensure_valid_plan raises only on a version,
\* summary, range or enum error, no error and no warning comes from the
\* actions, and final_columns is None; final_columns is set only when a
\* column set was supplied
C6_NoColumnsIgnoresActions ==
    /\ (Validated /\ Val(result).final_columns # None) => df_columns # None
    /\ (ensured # None /\ df_columns = None) =>
         /\ Val(result).final_columns = None
         /\ Val(ensured).raised # "" => StructuralError
         /\ \A i \in 1..Len(Val(result).errors) : Val(result).errors[i].path \in PlanOnlyPaths
         /\ \A i \in 1..Len(Val(result).warnings) : Val(result).warnings[i].path \in PlanOnlyPaths

C6_Witness ==
    /\ ensured # None
    /\ df_columns = None
    /\ Val(ensured).raised = ""
    /\ \E i \in 1..Len(plan.actions) :
         /\ Action(i).action = "rename_columns"
         /\ \E k \in 1..Len(Action(i).mapping) : Action(i).mapping[k][2] = " "

\* C7: validate_plan reports exactly one error per range rule with both
\* bounds set and min > max, with a message that gives min and max and the
\* rule's index as path; any other range rule produces no error
C7_OneErrorPerBadRange ==
    Validated =>
      \A i \in 1..Len(plan.validations.ranges) :
           LET rr == plan.validations.ranges[i]
               path == "validations.ranges[" \o ToString(i - 1) \o "]"
               bad == rr.min # None /\ rr.max # None /\ rr.min[1] > rr.max[1]
               at == { k \in 1..Len(Val(result).errors) : Val(result).errors[k].path = path }
           IN  /\ Cardinality(at) = IF bad THEN 1 ELSE 0
               /\ \A k \in at :
                    Val(result).errors[k].message =
                      "Min (" \o ToString(rr.min[1]) \o ".0) cannot be greater than max ("
                        \o ToString(rr.max[1]) \o ".0) for column '" \o rr.column \o "'"

C7_Witness ==
    /\ Validated
    /\ Len(plan.validations.ranges) = 2
    /\ plan.validations.ranges[1] = RangeRule("A", Some(1), Some(0))
    /\ plan.validations.ranges[2] = RangeRule("B", Some(1), Some(1))
    /\ Len(Val(result).errors) = 1

\* an allowed entry that is empty or whitespace only
IsBlankText(v) == \A k \in 1..Len(v) : v[k] \in { " ", "\t" }

\* C8: validate_plan reports exactly one error, "Allowed list cannot be
\* empty", per enum rule with an empty allowed list and no warning for it; an
\* enum rule with a non-empty list produces no error, and a warning exactly
\* when one of its allowed entries is blank
C8_EnumAllowedIssues ==
    Validated =>
      \A i \in 1..Len(plan.validations.enums) :
        LET er == plan.validations.enums[i]
            path == "validations.enums[" \o ToString(i - 1) \o "].allowed"
            errs == { k \in 1..Len(Val(result).errors) : Val(result).errors[k].path = path }
            warns == { k \in 1..Len(Val(result).warnings) : Val(result).warnings[k].path = path }
        IN  /\ Cardinality(errs) = IF Len(er.allowed) = 0 THEN 1 ELSE 0
            /\ \A k \in errs :
                 Val(result).errors[k].message =
                   "Allowed list cannot be empty for column '" \o er.column \o "'"
            /\ Cardinality(warns) =
                 IF \E k \in 1..Len(er.allowed) : IsBlankText(er.allowed[k]) THEN 1 ELSE 0

C8_Witness ==
    /\ Validated
    /\ Len(plan.validations.enums) = 2
    /\ plan.validations.enums[1].allowed = <<>>
    /\ plan.validations.enums[2].allowed = << << "1" >>, << " " >> >>
    /\ Len(Val(result).errors) = 1
    /\ Len(Val(result).warnings) = 1


\* what the validator's step appended to a list
Added(before, after) == SubSeq(after, Len(before) + 1, Len(after))

SimulateStep == pc = "simulate" /\ v_idx <= Len(plan.actions)

FinishStep == pc = "simulate" /\ v_idx > Len(plan.actions)

\* the text around the column name in the missing-column warnings
MissingText(kind) ==
    CASE kind = "rename_columns" -> << "Rename source column '", "' not found in current columns" >>
      [] kind = "drop_columns" -> << "drop_columns references missing column '", "'" >>
      [] kind = "trim_whitespace" -> << "trim_whitespace references missing column '", "'" >>
      [] kind = "parse_numeric" -> << "parse_numeric references missing column '", "'" >>
      [] kind = "parse_dates" -> << "parse_dates references missing column '", "'" >>
      [] kind = "deduplicate_rows" -> << "deduplicate_rows subset references missing column '", "'" >>
      [] kind = "required" ->
           << "required column '", "' not present after actions (may fail at runtime validation)" >>
      [] kind = "ranges" ->
           << "range rule column '", "' not present after actions (will be skipped/fail at runtime)" >>
      [] kind = "enums" ->
           << "Enum rule column '", "' not present after actions (will be skipped/fail at runtime)" >>

RuleKinds == { "required", "ranges", "enums" }

\* the kinds of action and rule that name columns
WarnKinds ==
    { "rename_columns", "drop_columns", "trim_whitespace", "parse_numeric", "parse_dates",
      "deduplicate_rows" } \cup RuleKinds

\* the list w holds a missing-column warning of the kind that names column c
Warned(w, kind, c) ==
    /\ kind \in WarnKinds
    /\ \E j \in 1..Len(w) : w[j].message = MissingText(kind)[1] \o c \o MissingText(kind)[2]

\* every column name a plan of the model can hold
AnyName == Names \cup Targets

\* the references of an action in the order the validator meets them: the
\* column referred to, and for a rename entry its target
References(a) ==
    IF a.action = "rename_columns"
    THEN [ k \in 1..Len(a.mapping) |-> [column |-> a.mapping[k][1], target |-> Some(a.mapping[k][2])] ]
    ELSE IF a.action \in { "drop_columns", "parse_numeric", "parse_dates" }
    THEN [ k \in 1..Len(a.columns) |-> [column |-> a.columns[k], target |-> None] ]
    ELSE IF a.action = "trim_whitespace" /\ a.columns # None
    THEN [ k \in 1..Len(a.columns[1]) |-> [column |-> a.columns[1][k], target |-> None] ]
    ELSE IF a.action = "deduplicate_rows" /\ a.subset # None
    THEN [ k \in 1..Len(a.subset[1]) |-> [column |-> a.subset[1][k], target |-> None] ]
    ELSE <<>>

BlankRef(r) == r.target \in { Some(""), Some(" ") }

RECURSIVE WorkingSet(_, _, _)
\* the working column set after the first k references of action a, from the
\* set c the earlier actions left: a drop removes its column, a rename entry
\* with a non-blank target and a present source replaces source by target
WorkingSet(a, k, c) ==
    IF k = 0 THEN c
    ELSE LET w == WorkingSet(a, k - 1, c)
             r == References(a)[k]
         IN  IF r.column \notin w THEN w
             ELSE IF a.action = "drop_columns" THEN w \ { r.column }
             ELSE IF a.action = "rename_columns" /\ ~BlankRef(r)
             THEN (w \ { r.column }) \cup { r.target[1] }
             ELSE w

BlankTargets(a) ==
    IF a.action = "rename_columns"
    THEN Cardinality({ k \in 1..Len(a.mapping) : a.mapping[k][2] \in { "", " " } })
    ELSE 0

\* the plan has none of the problems that are errors
OnlySoftProblems ==
    /\ ~StructuralError
    /\ AllTagsKnown
    /\ \A i \in 1..Len(plan.actions) : BlankTargets(Action(i)) = 0

RuleColumnsOf(kind) ==
    CASE kind = "required" -> Range(RuleColumns(plan.validations.required))
      [] kind = "ranges" -> Range(RuleColumns(plan.validations.ranges))
      [] kind = "enums" -> Range(RuleColumns(plan.validations.enums))

\* C9: a reference to a column that does not exist never makes the plan
\* invalid: an action or a validation rule that names a column absent from the
\* simulated column set adds a warning naming the column and adds no error,
\* and a plan whose only problems are missing columns, empty lists and
\* duplicate rename targets has ok = true and no error
C9_MissingReferenceOnlyWarns ==
    [][ /\ SimulateStep =>
             LET a == Action(v_idx)
                 refs == References(a)
             IN  \A k \in 1..Len(refs) :
                   refs[k].column \notin WorkingSet(a, k - 1, cols) =>
                     /\ Warned(Added(warnings, warnings'), a.action, refs[k].column)
                     /\ errors' = errors
        /\ FinishStep =>
             \A kind \in RuleKinds : \A c \in RuleColumnsOf(kind) \ cols :
               /\ Warned(Added(warnings, warnings'), kind, c)
               /\ errors' = errors
        /\ (result' # None /\ df_columns # None /\ OnlySoftProblems) =>
             (result'[1].ok /\ result'[1].errors = <<>>) ]_vars

\* C9 as amended: as C9, but a rename entry whose target is blank adds the
\* blank-target error and no missing-column warning; the errors an action
\* adds are one per blank rename target and one for an unknown tag
C9_MissingReferenceOnlyWarns_Amended ==
    [][ /\ SimulateStep =>
             LET a == Action(v_idx)
                 refs == References(a)
             IN  /\ \A k \in 1..Len(refs) :
                      (refs[k].column \notin WorkingSet(a, k - 1, cols) /\ ~BlankRef(refs[k])) =>
                        Warned(Added(warnings, warnings'), a.action, refs[k].column)
                 /\ Len(errors') - Len(errors) =
                      IF a.action \in KnownTags THEN BlankTargets(a) ELSE 1
        /\ FinishStep =>
             /\ \A kind \in RuleKinds : \A c \in RuleColumnsOf(kind) \ cols :
                  Warned(Added(warnings, warnings'), kind, c)
             /\ errors' = errors
        /\ (result' # None /\ df_columns # None /\ OnlySoftProblems) =>
             (result'[1].ok /\ result'[1].errors = <<>>) ]_vars

\* a valid plan with a missing rename source, duplicate rename targets and
\* missing rule columns
C9_Witness ==
    /\ Validated
    /\ df_columns = Some(<< "A" >>)
    /\ Len(plan.actions) = 1
    /\ Action(1).action = "rename_columns"
    /\ Action(1).mapping = << << "B", "A" >>, << "A", "A" >> >>
    /\ Val(result).ok
    /\ Val(result).errors = <<>>
    /\ Warned(Val(result).warnings, "rename_columns", "B")
    /\ Warned(Val(result).warnings, "required", "B")
    /\ Len(Val(result).warnings) = 4

\* C10: a column named by an action is warned as missing exactly when it is
\* absent from the working column set as left by the actions before it, and a
\* column named by a validation rule exactly when it is absent from the final
\* set
C10_WarnedIffAbsent ==
    [][ /\ SimulateStep =>
             \A c \in AnyName :
               Warned(Added(warnings, warnings'), Action(v_idx).action, c)
                 <=> (c \in NamedColumns(Action(v_idx)) /\ c \notin cols)
        /\ FinishStep =>
             \A kind \in RuleKinds : \A c \in AnyName :
               Warned(Added(warnings, warnings'), kind, c)
                 <=> (c \in RuleColumnsOf(kind) /\ c \notin cols) ]_vars

\* C10 as amended: a column named by an action is warned as missing exactly
\* when a reference to it (other than a rename entry with a blank target)
\* finds it absent from the working set as left by the actions before it and
\* by the earlier references of the same action; a column named by a
\* validation rule exactly when it is absent from the final set, which is
\* final_columns
C10_WarnedIffAbsent_Amended ==
    [][ /\ SimulateStep =>
             LET a == Action(v_idx)
                 refs == References(a)
             IN  /\ \A c \in AnyName :
                      Warned(Added(warnings, warnings'), a.action, c)
                        <=> \E k \in 1..Len(refs) :
                              /\ refs[k].column = c
                              /\ ~BlankRef(refs[k])
                              /\ c \notin WorkingSet(a, k - 1, cols)
                 /\ cols' = WorkingSet(a, Len(refs), cols)
        /\ FinishStep =>
             /\ \A kind \in RuleKinds : \A c \in AnyName :
                  Warned(Added(warnings, warnings'), kind, c)
                    <=> (c \in RuleColumnsOf(kind) /\ c \notin cols)
             /\ result'[1].final_columns = Some(Sorted(cols)) ]_vars

\* A renamed to B, then B parsed and required, against the columns A: B is in
\* final_columns and draws no warning, the renamed-away A does
C10_Witness ==
    /\ Validated
    /\ df_columns = Some(<< "A" >>)
    /\ Len(plan.actions) = 2
    /\ Action(1).action = "rename_columns" /\ Action(1).mapping = << << "A", "B" >> >>
    /\ Action(2).action = "parse_numeric" /\ Action(2).columns = << "B" >>
    /\ plan.validations = SampleValidations
    /\ Val(result).final_columns = Some(<< "B" >>)
    /\ \A kind \in WarnKinds : ~Warned(Val(result).warnings, kind, "B")
    /\ Warned(Val(result).warnings, "ranges", "A")


\* C11: no step of validate_plan, ensure_valid_plan or execute_plan changes
\* the input dataset, the plan or the supplied column list, whether the call
\* returns or raises; the transformed dataset is held apart from the input
C11_InputsNeverMutated ==
    [][ /\ plan' = plan
        /\ df' = df
        /\ df_columns' = df_columns ]_vars

\* execute_plan returned a dataset that differs from its input, and the input
\* still is the uploaded dataset
C11_Witness ==
    /\ Executed
    /\ returned # None
    /\ Val(returned).df # df
    /\ df \in FullDatasets
    /\ df_columns = Some(df.columns)
    /\ Val(result).final_columns # df_columns

\* a step of the loop of execute_plan that raises nothing
AppliedStep == pc = "apply" /\ e_idx <= Len(plan.actions) /\ exc' = ""

\* the record the step appended to actions_applied
NewRecord == report'.actions_applied[Len(report'.actions_applied)]

\* C12: execute_plan applies the actions in plan order, each to the dataset
\* the earlier actions left: every step of the loop takes the next action,
\* appends one record with that action's tag after the earlier records, and
\* the record tells of the columns of the dataset at that point; when
\* execute_plan returns, actions_applied holds one record per action in plan
\* order and plan_version and summary are the plan's
C12_ActionsInPlanOrder ==
    [][ /\ AppliedStep =>
             /\ e_idx' = e_idx + 1
             /\ Len(report.actions_applied) = e_idx - 1
             /\ report'.actions_applied = Append(report.actions_applied, NewRecord)
             /\ NewRecord.action = Action(e_idx).action
             /\ NewRecord.action = "trim_whitespace" => NewRecord.columns_seen = out.columns
             /\ NewRecord.action = "rename_columns" =>
                  \A k \in 1..Len(NewRecord.applied) : HasColumn(out, NewRecord.applied[k][1])
             /\ NewRecord.action = "drop_columns" =>
                  Range(NewRecord.dropped) = Range(Action(e_idx).columns) \cap Range(out.columns)
             /\ NewRecord.action = "parse_numeric" =>
                  \A k \in 1..Len(NewRecord.stats) :
                    ("skipped" \in DOMAIN NewRecord.stats[k][2])
                      <=> ~HasColumn(out, NewRecord.stats[k][1])
        /\ returned' # None =>
             LET r == returned'[1].report
             IN  /\ Len(r.actions_applied) = Len(plan.actions)
                 /\ \A i \in 1..Len(plan.actions) : r.actions_applied[i].action = Action(i).action
                 /\ r.plan_version = plan.version
                 /\ r.summary = plan.summary ]_vars

\* A renamed to B, then B parsed: the second action finds the column B that
\* the first one made, and both records are in the report in plan order
C12_Witness ==
    /\ Executed
    /\ returned # None
    /\ df.columns = << "A" >>
    /\ Len(plan.actions) = 2
    /\ Action(1).action = "rename_columns" /\ Action(1).mapping = << << "A", "B" >> >>
    /\ Action(2).action = "parse_numeric" /\ Action(2).columns = << "B" >>
    /\ Val(returned).report.actions_applied[1].applied = << << "A", "B" >> >>
    /\ Val(returned).report.actions_applied[2].stats = << << "B", [changed_cells |-> 3] >> >>
    /\ Val(returned).df.columns = << "B" >>

\* the positions of the columns a deduplicate_rows action compares
KeyPositions(d, a) ==
    IF a.subset = None THEN 1..Len(d.columns)
    ELSE { i \in 1..Len(d.columns) : d.columns[i] \in Range(a.subset[1]) }

\* rows q and r of d agree on the compared columns
SameKey(d, a, q, r) == \A i \in KeyPositions(d, a) : d.rows[q][i] = d.rows[r][i]

\* the rows that equal no earlier row on the compared columns
FirstOfKey(d, a) == { r \in 1..Len(d.rows) : \A q \in 1..(r - 1) : ~SameKey(d, a, q, r) }

\* the j-th smallest member of a set of row numbers
Nth(S, j) == CHOOSE r \in S : Cardinality({ q \in S : q <= r }) = j

DedupStep ==
    /\ AppliedStep
    /\ Action(e_idx).action = "deduplicate_rows"
    /\ Action(e_idx).subset # Some(<<>>)

RepeatOf(kind) ==
    /\ pc = "apply"
    /\ e_idx = 2
    /\ Action(1).action = kind
    /\ Action(2) = Action(1)

\* C14: deduplicate_rows is idempotent: the same deduplicate_rows action run
\* a second time in a row leaves the dataset as the first run left it and
\* records dropped_rows = 0, and with no subset or a non-empty subset it
\* raises nothing
C14_DeduplicateIdempotent ==
    [][ RepeatOf("deduplicate_rows") =>
          /\ Action(2).subset # Some(<<>>) => exc' = ""
          /\ exc' = "" =>
               /\ out' = out
               /\ e_idx' = 3
               /\ NewRecord.dropped_rows = 0 ]_vars

\* three rows with the same value of A, deduplicated twice on A: the first
\* pass drops two rows, the second none
C14_Witness ==
    /\ Executed
    /\ returned # None
    /\ Len(df.rows) = 3
    /\ Action(1) = [action |-> "deduplicate_rows", subset |-> Some(<< "A" >>)]
    /\ Action(2) = Action(1)
    /\ Val(returned).report.actions_applied[1].dropped_rows = 2
    /\ Val(returned).report.actions_applied[2].dropped_rows = 0
    /\ Len(Val(returned).df.rows) = 1

\* C15: trim_whitespace is idempotent: the same trim_whitespace action run a
\* second time in a row raises nothing, changes no cell, column or row and
\* adds no warning to the report; a trim_whitespace step skips the columns it
\* names that are absent, without error or warning, and keeps the columns and
\* the number of rows
C15_TrimIdempotent ==
    [][ /\ RepeatOf("trim_whitespace") =>
             /\ exc' = ""
             /\ out' = out
             /\ report'.warnings = report.warnings
        /\ (pc = "apply" /\ e_idx <= Len(plan.actions)
              /\ Action(e_idx).action = "trim_whitespace") =>
             /\ exc' = ""
             /\ report'.warnings = <<>>
             /\ out'.columns = out.columns
             /\ Len(out'.rows) = Len(out.rows) ]_vars

\* the columns B, A trimmed twice on a dataset without B whose cells carry
\* whitespace: the first pass changed the dataset, and the run returned
\* without a warning
C15_Witness ==
    /\ Executed
    /\ returned # None
    /\ df.columns = << "A" >>
    /\ Action(1) = [action |-> "trim_whitespace", columns |-> Some(<< "B", "A" >>)]
    /\ Action(2) = Action(1)
    /\ \E r \in 1..Len(df.rows) : df.rows[r][1] = << " ", " ", "1" >>
    /\ Val(returned).df # df
    /\ \A r \in 1..Len(df.rows) : Val(returned).df.rows[r][1] \in { << "1" >>, << "2" >> }
    /\ Val(returned).report.warnings = <<>>

\* execute_plan returned from a plan of one parse_numeric action on column A
Parsed == returned # None /\ Len(plan.actions) = 1 /\ Action(1).action = "parse_numeric"

\* the cell of row r before and after the run
CellBefore(r) == df.rows[r][1]

CellAfter(r) == Val(returned).df.rows[r][1]

\* the text of a cell after the steps that come before the type step, in the
\* order trim, typo fix, currency strip, thousands handling, strip of other
\* characters, collapse of dots
BeforeTypeStep(v, a) ==
    LET trimmed == Strip(v)
        typos == IF a.fix_common_typos THEN FixTypos(trimmed) ELSE trimmed
        currency == IF a.allow_currency THEN StripCurrency(typos) ELSE typos
        thousands == IF a.allow_thousands_separators
                     THEN StripThousandsDots(StripCommas(currency)) ELSE currency
    IN  CollapseDots(KeepNumeric(thousands))

HasDot(s) == \E i \in 1..Len(s) : s[i] = "."

\* C16: after parse_numeric with numeric_type = int, whatever the flags, no
\* output cell holds a ".": the cell is the cleaned text up to its first "."
\* (truncation), which is the empty text when nothing comes before the "."
C16_IntHasNoDot ==
    (Parsed /\ Action(1).numeric_type = "int") =>
      \A r \in 1..Len(df.rows) :
        LET o == CellAfter(r)
            c == BeforeTypeStep(CellBefore(r), Action(1))
        IN  /\ ~HasDot(o)
            /\ Len(o) <= Len(c)
            /\ o = SubSeq(c, 1, Len(o))
            /\ Len(o) < Len(c) => c[Len(o) + 1] = "."

\* the cell 9.9 parsed as int is 9, not 10
C16_Witness ==
    /\ Parsed
    /\ Action(1).numeric_type = "int"
    /\ ~Action(1).allow_thousands_separators
    /\ CellBefore(1) = << "9", ".", "9" >>
    /\ CellAfter(1) = << "9" >>

Unsigned(o) == IF o # <<>> /\ Head(o) = "-" THEN Tail(o) ELSE o

\* an optional "-" and one or more digits
IsIntText(o) == Unsigned(o) # <<>> /\ AllDigits(Unsigned(o))

\* digits, with at most one "." between two of them
IsMantissa(m) ==
    /\ m # <<>>
    /\ IsDigit(Head(m)) /\ IsDigit(m[Len(m)])
    /\ \A i \in 1..Len(m) : IsDigit(m[i]) \/ m[i] = "."
    /\ Cardinality({ i \in 1..Len(m) : m[i] = "." }) <= 1

\* the text of a float as str() gives it: an optional "-", then digits "."
\* digits, or a mantissa and an exponent
IsFloatText(o) ==
    LET b == Unsigned(o)
        es == { i \in 1..Len(b) : b[i] = "e" }
    IN  IF es = {} THEN IsMantissa(b) /\ HasDot(b)
        ELSE \E e \in es :
               /\ IsMantissa(SubSeq(b, 1, e - 1))
               /\ e + 3 <= Len(b)
               /\ b[e + 1] \in { "-", "+" }
               /\ AllDigits(SubSeq(b, e + 2, Len(b)))

\* C17: after parse_numeric on a present column every output cell is the empty
\* string or a well-formed number in canonical text, for int an optional "-"
\* and one or more digits, for float the text of a float; a cell whose cleaned
\* text is no number becomes the empty string, and nothing is raised
C17_CellIsNumberOrEmpty ==
    (Executed /\ Len(plan.actions) = 1 /\ Action(1).action = "parse_numeric") =>
      /\ exc = ""
      /\ returned # None
      /\ \A r \in 1..Len(df.rows) :
           \/ CellAfter(r) = <<>>
           \/ Action(1).numeric_type = "int" /\ IsIntText(CellAfter(r))
           \/ Action(1).numeric_type = "float" /\ IsFloatText(CellAfter(r))

\* the cell 1-2 parsed as int stays 1-2
C17_Witness ==
    /\ Parsed
    /\ Action(1).numeric_type = "int"
    /\ CellBefore(1) = << "1", "-", "2" >>
    /\ CellAfter(1) = << "1", "-", "2" >>

\* the changed_cells that the record of the run holds for column A
ChangedCellsOfA == Val(returned).report.actions_applied[1].stats[1][2].changed_cells

\* C18: the changed_cells recorded for a parsed column is the number of cells
\* whose output differs from the cell's trimmed text before the parse, so a
\* cell that differs from its output by surrounding whitespace only is not
\* counted
C18_ChangedCellsFromTrimmedText ==
    Parsed =>
      ChangedCellsOfA
        = Cardinality({ r \in 1..Len(df.rows) : CellAfter(r) # Strip(CellBefore(r)) })

\* the cells "9" and " 9" parsed as int are both "9": no output differs from
\* the trimmed text, and changed_cells is 1
C18_Witness ==
    /\ Parsed
    /\ Action(1).numeric_type = "int"
    /\ CellBefore(1) = << "9" >>
    /\ CellBefore(2) = << " ", "9" >>
    /\ CellAfter(1) = << "9" >>
    /\ CellAfter(2) = << "9" >>
    /\ ChangedCellsOfA = 1

\* the type step: int cuts the text at its first ".", float completes a
\* trailing "." and takes the text of the float, or nothing
TypeStep(c, a) ==
    IF a.numeric_type = "int" THEN CutDecimals(c) ELSE ToFloatStr(FixTrailingDot(c))

\* C19: the numeric cleanup is the steps trim, typo fix, currency strip,
\* thousands handling, strip of the characters other than digit, "." and "-",
\* collapse of dots and type step, in this order; as float, 2.278.845 with
\* thousands handling and without currency is 2278845.0, $1,234.50 with
\* currency and thousands handling is 1234.5, and 9. is 9.0
C19_FixedPipelineOrder ==
    Parsed =>
      LET a == Action(1)
      IN  /\ \A r \in 1..Len(df.rows) :
               CellAfter(r) = TypeStep(BeforeTypeStep(CellBefore(r), a), a)
          /\ (/\ a.numeric_type = "float" /\ a.allow_thousands_separators /\ ~a.allow_currency
              /\ CellBefore(1) = << "2", ".", "2", "7", "8", ".", "8", "4", "5" >>)
               => CellAfter(1) = << "2", "2", "7", "8", "8", "4", "5", ".", "0" >>
          /\ (/\ a.numeric_type = "float" /\ a.allow_thousands_separators /\ a.allow_currency
              /\ CellBefore(1) = << "$", "1", ",", "2", "3", "4", ".", "5", "0" >>)
               => CellAfter(1) = << "1", "2", "3", "4", ".", "5" >>
          /\ (a.numeric_type = "float" /\ CellBefore(1) = << "9", "." >>)
               => CellAfter(1) = << "9", ".", "0" >>

\* o.999 as float with typo fix and thousands handling: the typo fix comes
\* first and makes the "." a thousands separator, so the cell is 999.0
C19_Witness ==
    /\ Parsed
    /\ Action(1).numeric_type = "float"
    /\ Action(1).fix_common_typos
    /\ Action(1).allow_thousands_separators
    /\ CellBefore(1) = << "o", ".", "9", "9", "9" >>
    /\ CellAfter(1) = << "9", "9", "9", ".", "0" >>

RenameStep ==
    /\ pc = "apply"
    /\ e_idx <= Len(plan.actions)
    /\ Action(e_idx).action = "rename_columns"

\* the entries of a mapping whose source is a column of d and whose target is
\* not blank (neither empty nor whitespace only)
NonBlankPresent(d, mapping) ==
    SelectSeq(mapping, LAMBDA e : HasColumn(d, e[1]) /\ e[2] \notin { "", " " })

\* C20: a rename_columns step of execute_plan applies exactly the entries
\* whose source is a column of the dataset and whose target is not blank,
\* records exactly those under applied, and leaves the other column names,
\* the column order and the cells as they were
C20_RenameAppliesNonBlankPresent ==
    [][ RenameStep =>
          LET entries == NonBlankPresent(out, Action(e_idx).mapping)
          IN  /\ exc' = ""
              /\ NewRecord.applied = entries
              /\ out'.rows = out.rows
              /\ Len(out'.columns) = Len(out.columns)
              /\ \A i \in 1..Len(out.columns) :
                   IF \E k \in 1..Len(entries) : entries[k][1] = out.columns[i]
                   THEN \E k \in 1..Len(entries) :
                          entries[k][1] = out.columns[i] /\ out'.columns[i] = entries[k][2]
                   ELSE out'.columns[i] = out.columns[i] ]_vars

\* the column A renamed to a whitespace-only target: the entry is applied and
\* recorded, and the dataset returned has the column " "
C20_Witness ==
    /\ Executed
    /\ returned # None
    /\ df.columns = << "A" >>
    /\ Len(plan.actions) = 1
    /\ Action(1).action = "rename_columns"
    /\ Action(1).mapping = << << "A", " " >> >>
    /\ Val(returned).report.actions_applied[1].applied = << << "A", " " >> >>
    /\ Val(returned).df.columns = << " " >>

-----------------------------------------------------------------------------
(* End-of-run validation *)

\* every action of the plan has been applied and execute_plan has ended
RanToValidation == Executed /\ e_idx > Len(plan.actions)

\* results has one entry per rule of rules, in the order of the rules
OnePerRule(results, rules) ==
    /\ Len(results) = Len(rules)
    /\ \A i \in 1..Len(rules) : results[i].column = rules[i].column

\* the rules of the plan whose column the dataset does not have are reported
\* as failed
MissingReported(results, rules, d) ==
    \A i \in 1..Len(rules) : ~HasColumn(d, rules[i].column) => results[i].ok = FALSE

\* C21: end-of-run validation always runs and never blocks: once every action
\* of the plan has been applied, execute_plan returns the transformed dataset
\* and a report whose validations have the keys required, ranges and enums,
\* one result per rule in rule order, a rule on a missing column reported with
\* ok = false; validation never raises.
C21_ValidationNeverBlocks ==
    RanToValidation =>
        /\ exc = ""
        /\ returned # None
        /\ Val(returned).df = out
        /\ LET v == Val(Val(returned).report.validations)
               rules == plan.validations
           IN  /\ DOMAIN v = { "required", "ranges", "enums" }
               /\ OnePerRule(v.required, rules.required)
               /\ OnePerRule(v.ranges, rules.ranges)
               /\ OnePerRule(v.enums, rules.enums)
               /\ MissingReported(v.required, rules.required, out)
               /\ MissingReported(v.ranges, rules.ranges, out)
               /\ MissingReported(v.enums, rules.enums, out)

\* the rename of A to B on the columns A, B leaves the label B twice; the enum
\* rule on B then raises and nothing is returned
C21_Witness ==
    /\ RanToValidation
    /\ df.columns = << "A", "B" >>
    /\ Len(plan.actions) = 1
    /\ Action(1).action = "rename_columns"
    /\ out.columns = << "B", "B" >>
    /\ Len(report.actions_applied) = 1
    /\ plan.validations = SampleValidations
    /\ exc = "AttributeError"
    /\ returned = None

-----------------------------------------------------------------------------
(* Runs over the cells that the range and enum rules read *)

\* cells of a column under a range rule: numbers below, between and above the
\* bounds, padded text, text that is no number, and blank text
RangeCells == { << "1", ".", "5" >>, << "-", "1" >>, << " ", "3" >>, << "x" >>, << " " >> }

\* cells of a column under an enum rule
EnumCells == { << "x" >>, << " ", "3" >>, << "x", " " >>, <<>> }

\* one column of up to MaxRows cells
CellDatasets(cells) == { DataFrame(<< "A" >>, r) : r \in SeqsUpTo({ << c >> : c \in cells }, MaxRows) }

\* float | None bounds, min above max included
BoundRules == { RangeRule("A", lo, hi) : lo \in Optional(0..2), hi \in Optional(0..2) }

AllowedRules == { EnumRule("A", a) : a \in SeqsUpTo({ << "x" >>, << "3" >>, << " ", "3" >> }, MaxAllowed) }

\* the text of a two-digit number
TwoDigits(n) == << Digits[(n \div 10) + 1], Digits[(n % 10) + 1] >>

\* a column of BadValuesCap + 1 distinct values, the largest first
ManyValues ==
    DataFrame(<< "A" >>, [ r \in 1..(BadValuesCap + 1) |-> << TwoDigits(10 + BadValuesCap + 1 - r) >> ])

\* allowed lists that leave BadValuesCap + 1, BadValuesCap and fewer bad values
ManyRules ==
    { EnumRule("A", a) : a \in { <<>>, << TwoDigits(11) >>, << TwoDigits(11), TwoDigits(12) >> } }

\* an action that changes no cell, so that the rules read the uploaded cells
KeepCells == << [action |-> "drop_columns", columns |-> << "B" >>] >>

RangeRuns ==
    \E d \in CellDatasets(RangeCells), rule \in BoundRules :
      Inputs(CleaningPlan(<< "1" >>, <<>>, KeepCells, ValidationSpec(<<>>, << rule >>, <<>>)), d, TRUE)

EnumRuns ==
    \E d \in CellDatasets(EnumCells), rule \in AllowedRules :
      Inputs(CleaningPlan(<< "1" >>, <<>>, KeepCells, ValidationSpec(<<>>, <<>>, << rule >>)), d, TRUE)

ManyRuns ==
    \E rule \in ManyRules :
      Inputs(CleaningPlan(<< "1" >>, <<>>, KeepCells, ValidationSpec(<<>>, <<>>, << rule >>)),
             ManyValues, TRUE)

InitChecks ==
    /\ \/ RangeRuns
       \/ EnumRuns
       \/ ManyRuns
    /\ Fresh

\* the runs of one range rule or one enum rule over the cells of its column
ChecksSpec == InitChecks /\ [][Next]_vars

-----------------------------------------------------------------------------
(* Range and enum results *)

\* execute_plan has returned its dataset and report
Returned == returned # None

\* the rows of the returned dataset whose cell under col is not blank and
\* converts to a number
ConvertedRows(col) ==
    { r \in 1..Len(out.rows) :
        LET t == Strip(Column(out, col)[r]) IN t # <<>> /\ IsNumericText(t) }

\* the number of row r under col is below the min or above the max of the rule,
\* a bound that is unset not being tested
OutOfRange(r, rule) ==
    LET n == NumericValue(Strip(Column(out, rule.column)[r]))
    IN  \/ ~IsNone(rule.min) /\ Below(n, Val(rule.min))
        \/ ~IsNone(rule.max) /\ Above(n, Val(rule.max))

RangeReport(i) == Val(report.validations).ranges[i]

\* C22: for each range rule on a present column, checked is the number of
\* non-blank cells that convert to a number, violations is the number of those
\* cells whose number is below min or above max, and ok is true iff
\* violations = 0.
C22_RangeCountsCheckedAndViolating ==
    Returned =>
        \A i \in 1..Len(plan.validations.ranges) :
            LET rule == plan.validations.ranges[i]
                checked == ConvertedRows(rule.column)
                violating == { r \in checked : OutOfRange(r, rule) }
            IN  HasColumn(out, rule.column) =>
                    /\ RangeReport(i).checked = Cardinality(checked)
                    /\ RangeReport(i).violations = Cardinality(violating)
                    /\ RangeReport(i).ok = (RangeReport(i).violations = 0)

\* the one number 1.5 under min = 2, max = 1 is one value outside the bounds
\* and is reported as two violations
C22_Witness ==
    /\ Returned
    /\ out.rows = << << << "1", ".", "5" >> >>, << << "x" >> >>, << << " " >> >> >>
    /\ plan.validations.ranges = << RangeRule("A", Some(2), Some(1)) >>
    /\ RangeReport(1).checked = 1
    /\ RangeReport(1).violations = 2

\* C28: for every range rule that execute_plan evaluates, also one with
\* min > max, the reported violations are at most the reported checked: no
\* checked value is counted as a violation more than once.
C28_ViolationsAtMostChecked ==
    Returned =>
        \A i \in 1..Len(plan.validations.ranges) :
            HasColumn(out, plan.validations.ranges[i].column) =>
                RangeReport(i).violations <= RangeReport(i).checked

\* under min = 2, max = 0 the number 1.5 counts below min and above max and
\* the number 3 counts above max: three violations among two checked values
C28_Witness ==
    /\ Returned
    /\ out.rows = << << << "1", ".", "5" >> >>, << << " ", "3" >> >> >>
    /\ plan.validations.ranges = << RangeRule("A", Some(2), Some(0)) >>
    /\ RangeReport(1).checked = 2
    /\ RangeReport(1).violations = 3
    /\ RangeReport(1).ok = FALSE

\* the distinct non-blank trimmed values of the column of the rule that are
\* not among the allowed values
BadValues(rule) ==
    { Strip(Column(out, rule.column)[r]) : r \in 1..Len(out.rows) }
        \ ({ <<>> } \cup Range(rule.allowed))

EnumReport(i) == Val(report.validations).enums[i]

\* C23: for each enum rule on a present column, bad_value_count is the number
\* of distinct non-blank trimmed values not in the allowed set, bad_values
\* lists the first 50 of them in sorted order (all of them when there are
\* fewer), and ok is true iff bad_value_count = 0.
C23_EnumBadValuesCapped ==
    Returned =>
        \A i \in 1..Len(plan.validations.enums) :
            LET rule == plan.validations.enums[i]
                bad == BadValues(rule)
                listed == EnumReport(i).bad_values
            IN  HasColumn(out, rule.column) =>
                    /\ EnumReport(i).bad_value_count = Cardinality(bad)
                    /\ Len(listed) <= 50
                    /\ Len(listed) = (IF Cardinality(bad) < 50 THEN Cardinality(bad) ELSE 50)
                    /\ Range(listed) \subseteq bad
                    /\ \A k \in 1..(Len(listed) - 1) : TextLess(listed[k], listed[k + 1])
                    /\ \A v \in bad \ Range(listed) : \A k \in 1..Len(listed) : TextLess(listed[k], v)
                    /\ EnumReport(i).ok = (EnumReport(i).bad_value_count = 0)

\* 51 distinct values, none allowed: all are counted, the 50 smallest are
\* listed and the largest, 60, is left out
C23_Witness ==
    /\ Returned
    /\ Len(out.rows) = 51
    /\ plan.validations.enums = << EnumRule("A", <<>>) >>
    /\ EnumReport(1).bad_value_count = 51
    /\ Len(EnumReport(1).bad_values) = 50
    /\ EnumReport(1).bad_values[1] = << "1", "0" >>
    /\ EnumReport(1).bad_values[50] = << "5", "9" >>
    /\ EnumReport(1).ok = FALSE

-----------------------------------------------------------------------------
(* Unknown action tags *)

\* the loop of execute_plan stands at an action whose tag is not a known one
UnknownStep == pc = "apply" /\ e_idx <= Len(plan.actions) /\ Action(e_idx).action \notin KnownTags

\* execute_plan has ended with the error of an unknown tag
FailedOnUnknown ==
    /\ Executed
    /\ e_idx \in 1..Len(plan.actions)
    /\ exc = "ExecutionError: unknown action: " \o Action(e_idx).action

\* C24: at an action of unknown tag execute_plan fails at once with an
\* ExecutionError that names the tag: the step sets the error and ends the
\* run, returns no report, and leaves the dataset and the records of the
\* actions applied before it as they were; after it no action is applied.
C24_UnknownTagFailsAtOnce ==
    [][ /\ UnknownStep =>
             /\ exc' = "ExecutionError: unknown action: " \o Action(e_idx).action
             /\ pc' = "done"
             /\ returned' = None
             /\ out' = out
             /\ report' = report
             /\ Len(report.actions_applied) = e_idx - 1
             /\ e_idx' = e_idx
        /\ FailedOnUnknown => UNCHANGED << out, report, returned, e_idx, exc, pc >> ]_vars

\* the rename of A to B is applied, then the unknown tag ends the run: the
\* column is still renamed, one record is kept, nothing is returned
C24_Witness ==
    /\ FailedOnUnknown
    /\ e_idx = 2
    /\ Action(1).action = "rename_columns"
    /\ Action(2).action = UnknownTag
    /\ exc = "ExecutionError: unknown action: explode_rows"
    /\ df.columns = << "A" >>
    /\ out.columns = << "B" >>
    /\ Len(report.actions_applied) = 1
    /\ returned = None

-----------------------------------------------------------------------------
(* The simulation of rename_columns *)

\* the simulation stands at a rename_columns action
RenameSimStep == SimulateStep /\ Action(v_idx).action = "rename_columns"

\* the targets that the entries ks of the mapping m give more than once
RepeatedTargets(m, ks) == { m[i][2] : i \in { i \in ks : \E j \in ks : i # j /\ m[i][2] = m[j][2] } }

\* the entries of the mapping m whose target is blank
BlankEntries(m) == { k \in 1..Len(m) : m[k][2] \in { "", " " } }

\* the entries of the action a whose source is absent from the working set as
\* the entries before them left it
AbsentEntries(a) == { k \in 1..Len(a.mapping) : a.mapping[k][1] \notin WorkingSet(a, k - 1, cols) }

\* what the step at the rename action a adds, given the targets that count as
\* repeated and the entries that count as missing their source: one warning
\* for an empty mapping; else one warning if a target is repeated, one error
\* per entry with a blank target, one warning per entry missing its source;
\* the working set is that of the entries taken one after another
RenameStepAdds(a, repeated, missing) ==
    LET m == a.mapping
        w == Added(warnings, warnings')
        e == Added(errors, errors')
    IN  IF Len(m) = 0
        THEN /\ Len(w) = 1
             /\ w[1].message = "rename_columns mapping is empty"
             /\ e = <<>>
             /\ cols' = cols
        ELSE /\ Len(e) = Cardinality(BlankEntries(m))
             /\ \A k \in BlankEntries(m) :
                  \E j \in 1..Len(e) :
                    e[j].message = "Rename target for '" \o m[k][1] \o "' must be a non-empty string"
             /\ Len(w) = (IF repeated # {} THEN 1 ELSE 0) + Cardinality(missing)
             /\ repeated # {} =>
                  w[1].message = "Rename mapping has duplicate targets: " \o ReprList(Sorted(repeated))
             /\ \A k \in missing : Warned(w, "rename_columns", m[k][1])
             /\ cols' = WorkingSet(a, Len(m), cols)

\* C27: in the simulation of rename_columns an empty mapping adds one warning
\* and changes nothing; duplicate targets across the mapping add one warning;
\* each entry with a blank target adds one error and leaves the working set
\* unchanged; each entry whose source is absent from the working set adds one
\* warning and is skipped; every other entry removes its source and adds its
\* target, the entries taken one after another.
C27_RenameSimulation ==
    [][ RenameSimStep =>
          LET a == Action(v_idx)
          IN  RenameStepAdds(a, RepeatedTargets(a.mapping, 1..Len(a.mapping)), AbsentEntries(a)) ]_vars

\* C27 as amended: the duplicate-targets warning is for a target that is not
\* blank and is given more than once, and the missing-source warning is for
\* an entry whose target is not blank; an entry with a blank target adds its
\* error and nothing else.
C27_RenameSimulation_Amended ==
    [][ RenameSimStep =>
          LET a == Action(v_idx)
              named == (1..Len(a.mapping)) \ BlankEntries(a.mapping)
          IN  RenameStepAdds(a, RepeatedTargets(a.mapping, named), AbsentEntries(a) \cap named) ]_vars

\* the mapping A -> B, B -> B against the columns A: one warning for the
\* repeated target B and none for the source B, which the first entry added
C27_Witness ==
    /\ pc = "simulate"
    /\ v_idx = 2
    /\ Val(df_columns) = << "A" >>
    /\ Action(1).action = "rename_columns"
    /\ Action(1).mapping = << << "A", "B" >>, << "B", "B" >> >>
    /\ cols = { "B" }
    /\ errors = <<>>
    /\ Len(warnings) = 1
    /\ warnings[1].message = "Rename mapping has duplicate targets: ['B']"

-----------------------------------------------------------------------------
(* Job artifacts (src/pipeline/artifacts.py) *)

\* a file of a directory is created or overwritten
WriteFile(dir, job, content) ==
    [ j \in DOMAIN dir \cup { job } |-> IF j = job THEN content ELSE dir[j] ]

\* df.to_csv(out_path, index=False): the header line, then one line per row
ToCsv(d) == << d.columns >> \o d.rows

\* json.dump of a dict: the members of the object in the order of keys
JsonDump(keys, v) == [ i \in 1..Len(keys) |-> << keys[i], v[keys[i]] >> ]

\* json.load of an object: a dict of its members
JsonLoad(doc) ==
    [ k \in { doc[i][1] : i \in 1..Len(doc) } |->
        doc[CHOOSE i \in 1..Len(doc) : doc[i][1] = k /\ \A j \in (i + 1)..Len(doc) : doc[j][1] # k][2] ]

WriteCleanedCsv(o, d, job) == [o EXCEPT !.cleaned = WriteFile(@, job, ToCsv(d))]

WriteReportJson(o, keys, rep, job) == [o EXCEPT !.reports = WriteFile(@, job, JsonDump(keys, rep))]

WritePlanJson(o, p, job) ==
    [o EXCEPT !.plans = WriteFile(@, job, JsonDump(<< "version", "summary", "actions", "validations" >>, p))]

\* a variant of ReadReportJson that reads the report written last, whatever
\* the job asked for
ReadReportJson_Latest(o, job) ==
    IF DOMAIN o.reports # {}
    THEN [report |-> Some(JsonLoad(o.reports[CHOOSE j \in DOMAIN o.reports :
                                                \A k \in DOMAIN o.reports : k <= j])),
          exc |-> ""]
    ELSE [report |-> None, exc |-> "FileNotFoundError"]

\* read_report_json: the report, or FileNotFoundError
ReadReportJson(o, job) ==
    IF job \in DOMAIN o.reports
    THEN [report |-> Some(JsonLoad(o.reports[job])), exc |-> ""]
    ELSE [report |-> None, exc |-> "FileNotFoundError"]

\* cleaned_csv_path: the path, or FileNotFoundError
CleanedCsvPath(o, job) ==
    IF job \in DOMAIN o.cleaned
    THEN [path |-> Some([dir |-> "cleaned", job |-> job]), exc |-> ""]
    ELSE [path |-> None, exc |-> "FileNotFoundError"]

-----------------------------------------------------------------------------
(* basic_clean (src/tools/transforms.py) *)

\* _NULL_LIKE, but for its dash of U+2014, a character no cell of the model has
NullLike ==
    { <<>>, << "n", "a" >>, << "n", "/", "a" >>, << "n", "u", "l", "l" >>,
      << "n", "o", "n", "e" >>, << "n", "a", "n" >>, << "i", "n", "f" >>,
      << "-", "i", "n", "f" >>, << "-" >> }

\* normalize_column_names, on the names of the model
NormalizeColumnNames(columns) == [ i \in 1..Len(columns) |-> StripName(columns[i]) ]

\* basic_clean: names normalised, cells stripped and null-like tokens
\* emptied, columns without a non-empty cell dropped, then exact duplicate
\* rows dropped (a dataset left without columns keeps its rows)
BasicClean(d) ==
    LET cells == DataFrame(NormalizeColumnNames(d.columns),
                           [ r \in 1..Len(d.rows) |->
                               [ i \in 1..Len(d.columns) |-> NullCell(NullLike, d.rows[r][i]) ] ])
        keep == { i \in 1..Len(cells.columns) : \E r \in 1..Len(cells.rows) : cells.rows[r][i] # <<>> }
        kept == DataFrame(Pick(cells.columns, keep, 1),
                          [ r \in 1..Len(cells.rows) |-> Pick(cells.rows[r], keep, 1) ])
        after == IF IsEmpty(kept) THEN kept ELSE DropDuplicates(kept, Range(kept.columns))
        shape(x) == [rows |-> Len(x.rows), columns |-> Len(x.columns)]
    IN  [ df |-> after,
          stats |-> [before_shape |-> shape(d), after_shape |-> shape(after),
                     dropped_columns |-> Sorted(Range(cells.columns) \ Range(after.columns))] ]

-----------------------------------------------------------------------------
(* The routes that create and serve jobs (src/api/routes.py) *)

\* job ids in the order _new_job_id issues them
JobIds == 1..MaxJobs

\* names of uploaded files: none, two that end in .csv whatever the case, and
\* one that does not
Filenames == { "", "data.csv", "DATA.CSV", "notes.txt" }

\* file.filename.lower().endswith(".csv")
EndsWithCsv(filename) == filename \in { "data.csv", "DATA.CSV" }

\* the checks of the upload at the head of a cleaning route: the detail of
\* the 400 response, or ""
UploadProblem(filename, d) ==
    IF filename = "" THEN "missing filename"
    ELSE IF ~EndsWithCsv(filename) THEN "only .csv files are supported"
    ELSE IF Len(d.columns) = 0 THEN "no columns found in csv"
    ELSE ""

HTTPException(route, status_code, detail) ==
    [route |-> route, status_code |-> status_code, detail |-> detail]

\* the variables of validate_plan and execute_plan that the routes leave alone
call_vars == << cols, errors, warnings, v_idx, result, ensured, out, report, e_idx, exc, returned >>

\* POST /clean/basic (lines 93-137)
CleanBasic ==
    /\ pc = "idle"
    /\ job_id < MaxJobs
    /\ \E filename \in Filenames :
         LET problem == UploadProblem(filename, df)
             job == job_id + 1
             c == BasicClean(df)
             rep == [job_id |-> job, filename |-> filename, cleaning_mode |-> "basic",
                     clean_stats |-> c.stats]
             keys == << "job_id", "filename", "cleaning_mode", "clean_stats" >>
         IN  IF problem # ""
             THEN /\ response' = Some(HTTPException("clean_basic", 400, problem))
                  /\ UNCHANGED << job_id, outputs >>
             ELSE /\ job_id' = job
                  /\ outputs' = WriteReportJson(WriteCleanedCsv(outputs, c.df, job), keys, rep, job)
                  /\ response' = Some([route |-> "clean_basic", status_code |-> 200,
                                       job_id |-> job, filename |-> filename,
                                       cleaning_mode |-> "basic", clean_stats |-> c.stats,
                                       artifacts |-> [cleaned_csv |-> [dir |-> "cleaned", job |-> job],
                                                      report_json |-> [dir |-> "reports", job |-> job]]])
    /\ UNCHANGED << plan, df, df_columns, pc >>
    /\ UNCHANGED call_vars

\* the response of GET /jobs/{job_id} (lines 303-309)
GetJobResponse(o, job) ==
    LET r == ReadReportJson(o, job)
    IN  IF r.exc = ""
        THEN [route |-> "get_job", status_code |-> 200, path_job_id |-> job, body |-> Val(r.report)]
        ELSE HTTPException("get_job", 404, "job_id not found")

\* the response of GET /jobs/{job_id}/cleaned.csv (lines 318-329): the file
\* at the path is the content
DownloadResponse(o, job) ==
    LET r == CleanedCsvPath(o, job)
    IN  IF r.exc = ""
        THEN [route |-> "download_cleaned_csv", status_code |-> 200, path_job_id |-> job,
              media_type |-> "text/csv", content |-> o[Val(r.path).dir][Val(r.path).job]]
        ELSE HTTPException("download_cleaned_csv", 404, "job_id not found")

\* GET /jobs/{job_id}
GetJob ==
    /\ pc = "idle"
    /\ \E job \in JobIds : response' = Some(GetJobResponse(outputs, job))
    /\ UNCHANGED << plan, df, df_columns, pc, job_id, outputs >>
    /\ UNCHANGED call_vars

\* GET /jobs/{job_id}/cleaned.csv
DownloadCleanedCsv ==
    /\ pc = "idle"
    /\ \E job \in JobIds : response' = Some(DownloadResponse(outputs, job))
    /\ UNCHANGED << plan, df, df_columns, pc, job_id, outputs >>
    /\ UNCHANGED call_vars

\* actions of the plans that generate_cleaning_plan returns: every tag is a
\* known one, as CleaningPlan.model_validate accepts no other
LlmActions ==
    { [action |-> "rename_columns", mapping |-> << << "A", "B" >> >>],
      [action |-> "rename_columns", mapping |-> << << "A", " " >> >>],
      [action |-> "drop_columns", columns |-> << "B" >>],
      [action |-> "trim_whitespace", columns |-> None],
      [action |-> "parse_dates", columns |-> << "A" >>, day_first |-> FALSE,
       output_format |-> "iso_date"] }

\* plans of at most one action, without rules or with a range rule whose min
\* is above its max
LlmPlans ==
    { CleaningPlan(<< "1" >>, <<>>, a, v) :
        a \in SeqsUpTo(LlmActions, 1),
        v \in { NoValidations, ValidationSpec(<<>>, << RangeRule("A", Some(1), Some(0)) >>, <<>>) } }

\* POST /clean/llm, lines 217-230: the upload is checked and the job id made
CleanLlmStart ==
    /\ pc = "idle"
    /\ job_id < MaxJobs
    /\ \E filename \in Filenames :
         LET problem == UploadProblem(filename, df)
         IN  IF problem # ""
             THEN /\ response' = Some(HTTPException("clean_llm", 400, problem))
                  /\ UNCHANGED << job_id, pc, plan, df_columns >>
                  /\ UNCHANGED call_vars
             ELSE /\ job_id' = job_id + 1
                  /\ pc' = "generate_cleaning_plan"
                  /\ plan' = None
                  /\ df_columns' = None
                  /\ cols' = {}
                  /\ errors' = <<>>
                  /\ warnings' = <<>>
                  /\ v_idx' = 0
                  /\ result' = None
                  /\ ensured' = None
                  /\ out' = DataFrame(<<>>, <<>>)
                  /\ report' = None
                  /\ e_idx' = 0
                  /\ exc' = ""
                  /\ returned' = None
                  /\ UNCHANGED response
    /\ UNCHANGED << df, outputs >>

\* line 233: generate_cleaning_plan raises PlanError (the LLM call failed or
\* its answer is no CleaningPlan), answered by the 500 of line 236, or returns
\* a plan, which line 234 hands to ensure_valid_plan with the columns of df
GenerateCleaningPlan ==
    /\ pc = "generate_cleaning_plan"
    /\ \/ /\ response' = Some(HTTPException("clean_llm", 500, "planning failed"))
          /\ pc' = "idle"
          /\ UNCHANGED << plan, df_columns >>
       \/ /\ \E p \in LlmPlans : plan' = p
          /\ df_columns' = Some(df.columns)
          /\ pc' = "validate_plan"
          /\ UNCHANGED response
    /\ UNCHANGED << df, job_id, outputs >>
    /\ UNCHANGED call_vars

\* ensure_valid_plan has raised or returned
ValidationRaised == ensured # None /\ Val(ensured).raised # ""

ValidationReturned == ensured # None /\ Val(ensured).raised = ""

\* lines 237-245: PlanValidationError is answered by the 422
CleanLlmRejects ==
    /\ pc = "execute_plan"
    /\ ValidationRaised
    /\ response' = Some(HTTPException("clean_llm", 422,
                                      [message |-> "plan validation failed",
                                       errors |-> Val(ensured).errors,
                                       warnings |-> Val(ensured).warnings]))
    /\ pc' = "idle"
    /\ UNCHANGED << plan, df, df_columns, job_id, outputs >>
    /\ UNCHANGED call_vars

\* a variant of CleanLlmExecute that calls execute_plan whatever
\* ensure_valid_plan did
CleanLlmExecute_Unchecked == ExecuteStart

\* line 248, reached when line 234 returned: execute_plan is called
CleanLlmExecute ==
    /\ ValidationReturned
    /\ ExecuteStart

\* lines 249-294: ExecutionError is answered by the 500 of line 250 and any
\* other exception of execute_plan by the server's 500; else the plan
\* validation warnings are attached to the report, the three artifacts are
\* written and the 200 is sent
CleanLlmRespond ==
    /\ pc = "done"
    /\ LET validation == Val(ensured).result
           tagged == [ i \in 1..Len(validation.warnings) |->
                         [type |-> "plan_validation", path |-> validation.warnings[i].path,
                          message |-> validation.warnings[i].message] ]
           exec_report == [Val(returned).report EXCEPT !.warnings = @ \o tagged]
           rep == [job_id |-> job_id, filename |-> "data.csv", cleaning_mode |-> "llm",
                   plan |-> plan, execution_report |-> exec_report]
           keys == << "job_id", "filename", "cleaning_mode", "plan", "execution_report" >>
           written == WritePlanJson(
                          WriteReportJson(WriteCleanedCsv(outputs, Val(returned).df, job_id),
                                          keys, rep, job_id),
                          plan, job_id)
       IN  IF exc = ""
           THEN /\ outputs' = written
                /\ response' = Some([route |-> "clean_llm", status_code |-> 200, job_id |-> job_id,
                                     cleaning_mode |-> "llm", plan |-> plan,
                                     plan_validation |-> [ok |-> TRUE,
                                                          warnings |-> validation.warnings,
                                                          final_columns |-> validation.final_columns],
                                     execution_report |-> exec_report,
                                     artifacts |-> [cleaned_csv |-> [dir |-> "cleaned", job |-> job_id],
                                                    report_json |-> [dir |-> "reports", job |-> job_id],
                                                    plan_json |-> [dir |-> "plans", job |-> job_id]]])
           ELSE /\ response' = Some(HTTPException("clean_llm", 500,
                                        IF exc \in { "TypeError", "KeyError", "ValueError", "AttributeError" }
                                        THEN "Internal Server Error"
                                        ELSE "execution failed"))
                /\ UNCHANGED outputs
    /\ pc' = "idle"
    /\ UNCHANGED << plan, df, df_columns, job_id >>
    /\ UNCHANGED call_vars

\* a server that handles one request after another
RouteNext ==
    \/ CleanBasic
    \/ GetJob
    \/ DownloadCleanedCsv
    \/ CleanLlmStart
    \/ GenerateCleaningPlan
    \/ ValidatePlan
    \/ SimulateAction
    \/ SimulateFinish
    \/ EnsureValidPlan
    \/ CleanLlmRejects
    \/ CleanLlmExecute
    \/ ExecuteAction
    \/ ExecuteFinish
    \/ CleanLlmRespond

\* the server before its first request, the uploads being of one dataset
InitRoute ==
    /\ df \in Datasets
    /\ plan = None
    /\ df_columns = None
    /\ pc = "idle"
    /\ cols = {}
    /\ errors = <<>>
    /\ warnings = <<>>
    /\ v_idx = 0
    /\ result = None
    /\ ensured = None
    /\ out = DataFrame(<<>>, <<>>)
    /\ report = None
    /\ e_idx = 0
    /\ exc = ""
    /\ returned = None
    /\ job_id = 0
    /\ outputs = NoOutputs
    /\ response = None

RouteSpec == InitRoute /\ [][RouteNext]_vars

-----------------------------------------------------------------------------
(* The jobs of the routes *)

\* some artifact of the job is under outputs/
HasArtifact(o, job) == job \in (DOMAIN o.cleaned \cup DOMAIN o.reports \cup DOMAIN o.plans)

\* execute_plan has not been called since the request began
NotExecuted == report = None /\ e_idx = 0 /\ returned = None

\* C25: in /clean/llm, execute_plan is called only after ensure_valid_plan
\* returned for the plan against the columns of the uploaded dataset, the
\* plan and the dataset staying the same from the validation to the
\* execution; when planning fails the request ends with a 500, when the
\* validation raises it ends with a 422 that carries the errors and the
\* warnings; in both cases execute_plan is not called and no artifact of the
\* job is written.
C25_ExecutesOnlyValidPlans ==
    [][ /\ (pc = "execute_plan" /\ pc' = "apply") =>
             /\ ValidationReturned
             /\ Val(ensured).result = Val(result)
             /\ Val(result).ok
             /\ Val(result).errors = <<>>
             /\ df_columns = Some(df.columns)
        /\ pc \in { "validate_plan", "simulate", "ensure_valid_plan", "execute_plan", "apply" } =>
             plan' = plan /\ df' = df /\ df_columns' = df_columns
        /\ (pc = "generate_cleaning_plan" /\ pc' = "idle") =>
             /\ response' = Some(HTTPException("clean_llm", 500, "planning failed"))
             /\ NotExecuted'
             /\ outputs' = outputs
             /\ ~HasArtifact(outputs', job_id)
        /\ (pc = "execute_plan" /\ ValidationRaised) =>
             /\ pc' = "idle"
             /\ Val(response').route = "clean_llm"
             /\ Val(response').status_code = 422
             /\ Val(response').detail.errors = Val(result).errors
             /\ Val(response').detail.errors # <<>>
             /\ Val(response').detail.warnings = Val(result).warnings
             /\ NotExecuted'
             /\ outputs' = outputs
             /\ ~HasArtifact(outputs', job_id)
        /\ (job_id' = job_id /\ HasArtifact(outputs', job_id) /\ ~HasArtifact(outputs, job_id)) =>
             /\ ValidationReturned
             /\ returned # None ]_vars

\* the plan that drops the absent B and has a range rule with min above max,
\* for the columns A: the 422 carries one error and warnings, nothing was
\* executed and outputs/ is empty
C25_Witness ==
    /\ pc = "idle"
    /\ job_id = 1
    /\ df.columns = << "A" >>
    /\ response # None
    /\ Val(response).route = "clean_llm"
    /\ Val(response).status_code = 422
    /\ ValidationRaised
    /\ Len(plan.actions) = 1
    /\ plan.actions[1].action = "drop_columns"
    /\ Len(plan.validations.ranges) = 1
    /\ Len(Val(response).detail.errors) = 1
    /\ Len(Val(response).detail.warnings) >= 1
    /\ NotExecuted
    /\ outputs = NoOutputs

\* the last response is the 200 of POST /clean/basic
BasicCreated ==
    /\ response # None
    /\ Val(response).route = "clean_basic"
    /\ Val(response).status_code = 200

\* the file that a path of a response names is under outputs/
PathExists(o, path) == path.job \in DOMAIN o[path.dir]

\* C26: job artifacts round-trip: after POST /clean/basic succeeded, the
\* cleaned CSV and the report named in its response exist, GET /jobs/{job_id}
\* answers with the stored report, whose job_id and cleaning_mode are those of
\* the response, and GET /jobs/{job_id}/cleaned.csv answers with the CSV,
\* which is not empty; every stored report carries the id of its job and
\* every stored CSV has content; a job without any artifact answers both GETs
\* with 404.
C26_JobArtifactsRoundTrip ==
    /\ BasicCreated =>
         LET r == Val(response)
             got == GetJobResponse(outputs, r.job_id)
             csv == DownloadResponse(outputs, r.job_id)
         IN  /\ PathExists(outputs, r.artifacts.cleaned_csv)
             /\ PathExists(outputs, r.artifacts.report_json)
             /\ got.status_code = 200
             /\ got.body.job_id = r.job_id
             /\ got.body.cleaning_mode = r.cleaning_mode
             /\ got.body.cleaning_mode = "basic"
             /\ csv.status_code = 200
             /\ Len(csv.content) > 0
    /\ \A job \in JobIds :
         LET got == GetJobResponse(outputs, job)
             csv == DownloadResponse(outputs, job)
         IN  /\ job \in DOMAIN outputs.reports =>
                    got.status_code = 200 /\ got.body.job_id = job
             /\ job \in DOMAIN outputs.cleaned =>
                    csv.status_code = 200 /\ Len(csv.content) > 0
             /\ ~HasArtifact(outputs, job) =>
                    got.status_code = 404 /\ csv.status_code = 404

\* job 1 was rejected by /clean/llm and has no artifact, job 2 was made by
\* /clean/basic from three rows, and GET /jobs/2 has answered with its report
C26_Witness ==
    /\ job_id = 2
    /\ ~HasArtifact(outputs, 1)
    /\ HasArtifact(outputs, 2)
    /\ GetJobResponse(outputs, 1).status_code = 404
    /\ DownloadResponse(outputs, 1).status_code = 404
    /\ Len(DownloadResponse(outputs, 2).content) = 3
    /\ response # None
    /\ Val(response).route = "get_job"
    /\ Val(response).status_code = 200
    /\ Val(response).path_job_id = 2
    /\ Val(response).body.job_id = 2
    /\ Val(response).body.cleaning_mode = "basic"

====
